---- MODULE Spec2Model ----
(***************************************************************************)
(* Todo API (FastAPI + SQLModel): JWT verification, the per-user access    *)
(* guard and the six task endpoints, modelled as a state machine.          *)
(*                                                                         *)
(* Four specifications share the module:                                   *)
(*   SpecAuth  applies the pure authentication functions of app/auth to    *)
(*             every token and path owner id of a bounded input space;     *)
(*   SpecValid applies the request models of app/models to bodies whose    *)
(*             strings have lengths at the edges of the bounds;            *)
(*   SpecList  runs list requests against every bounded store;             *)
(*   Spec      runs HTTP requests, step by step, against the task store.   *)
(* Further specifications run narrower sets of requests where a property   *)
(* needs more rows (SpecStore), a failing database (SpecFault) or two      *)
(* requests in flight (SpecRace), compare stores that differ in the rows   *)
(* of other users (SpecIsolation), and construct the Settings of           *)
(* app/config.py from bounded environments (SpecSettings).  Spec assumes   *)
(* that the response is sent before get_session commits; SpecFault covers  *)
(* both orders.                                                            *)
(***************************************************************************)
EXTENDS Integers, Sequences, FiniteSets, TLC

VARIABLES
    authIn,      \* SpecAuth: the inputs, [token, path]
    authOut,     \* SpecAuth: the results of the functions applied to authIn
    bearer403,   \* build: TRUE when the installed HTTPBearer answers a missing header with 403
    db,          \* committed rows of table "tasks": id -> row
    nextId,      \* the primary-key sequence of table "tasks"
    now,         \* the wall clock read by datetime.utcnow()
    reqs,        \* the requests in flight or answered: slot -> request record
    hist,        \* ghost: per stored id, the subject of the token that created the row
    valIn,       \* SpecValid: the input, a request body
    valOut,      \* SpecValid: the result of validating valIn
    log,         \* ghost: per id ever stored, what the committed statements did to it
    exitFirst,   \* build: TRUE when the installed FastAPI runs the exit code of a
                 \* dependency with yield before it sends the response
    envIn,       \* SpecSettings: the input, the variables of the environment
    envOut       \* SpecSettings: the result of constructing Settings from envIn

vars == <<authIn, authOut, bearer403, db, nextId, now, reqs, hist, valIn, valOut, log,
          exitFirst, envIn, envOut>>

---------------------------------------------------------------------------
(* Bounds of the model (not program constants).                            *)

\* the clock stops ticking at MaxClock
MaxClock == 1
\* at most MaxTasks rows are ever inserted
MaxTasks == 1
\* SpecList: the store holds at most MaxListed rows
MaxListed == 2

---------------------------------------------------------------------------
(* Python values of JWT claims: absent key, JSON null, string, integer.    *)

Absent == [t |-> "absent", s |-> "", n |-> 0]
Null == [t |-> "null", s |-> "", n |-> 0]
StrV(x) == [t |-> "str", s |-> x, n |-> 0]
IntV(k) == [t |-> "int", s |-> "", n |-> k]

\* payload.get(claim) is not None
IsNotNone(v) == v.t \notin {"absent", "null"}

\* str(value): the identity on strings, decimal digits for integers
PyStr(v) == IF v.t = "int" THEN ToString(v.n) ELSE v.s

\* claim values tried for each of the four subject claims (0 is falsy, not None)
ClaimValues == {Absent, Null, StrV("A"), StrV("B"), IntV(0), IntV(12345)}
\* path owner ids tried against the guard; "a" differs from "A" by case only
PathIds == {"A", "B", "a", "", "0"}

(* Outcome of a Python call: a returned value, or a raised exception with  *)
(* its class and message; an HTTPException carries status and headers.     *)
Return(v) == [ok |-> TRUE, val |-> v, exc |-> "", msg |-> "", status |-> 0, www |-> ""]
Raise(e, m) == [ok |-> FALSE, val |-> Null, exc |-> e, msg |-> m, status |-> 0, www |-> ""]
HTTPException(status, detail, www) ==
    [ok |-> FALSE, val |-> Null, exc |-> "HTTPException", msg |-> detail,
     status |-> status, www |-> www]

---------------------------------------------------------------------------
(* Tokens.  form: "empty" | "malformed" | "jwt"; prefixed: the string      *)
(* starts with "Bearer "; secret: the key that signed it; payload: claims. *)

ExpKinds == {"absent", "past", "future", "overflow", "nonint"}
IatKinds == {"absent", "valid", "nonint"}

Payload(sub, uid, uidc, id, exp, iat) ==
    [sub |-> sub, user_id |-> uid, userId |-> uidc, id |-> id,
     email |-> Absent, exp |-> exp, iat |-> iat]

NoPayload == Payload(Absent, Absent, Absent, Absent, "absent", "absent")

Payloads == {Payload(a, b, c, d, e, i) :
                a \in ClaimValues, b \in ClaimValues, c \in ClaimValues,
                d \in ClaimValues, e \in ExpKinds, i \in IatKinds}

Token(form, prefixed, secret, payload) ==
    [form |-> form, prefixed |-> prefixed, secret |-> secret, payload |-> payload]

\* payloads that vary the registered subject claim only
SubPayloads == {Payload(a, Absent, Absent, Absent, e, i) :
                   a \in ClaimValues, e \in ExpKinds, i \in IatKinds}

\* every payload signed with the configured secret, and the structural and
\* signature variants of the payloads that vary "sub" only
Tokens ==
    {Token(f, p, "configured", NoPayload) : f \in {"empty", "malformed"}, p \in BOOLEAN}
    \cup {Token("jwt", FALSE, "configured", pl) : pl \in Payloads}
    \cup {Token("jwt", p, s, pl) :
            p \in BOOLEAN, s \in {"configured", "other"}, pl \in SubPayloads}

---------------------------------------------------------------------------
(* app/auth/jwt.py                                                         *)

\* mutant: jwt.decode called with verify_signature off
jwt_decode_unverified(token) ==
    IF token.form # "jwt" \/ token.prefixed
    THEN Raise("DecodeError", "Not enough segments")
    ELSE IF token.payload.exp = "absent"
    THEN Raise("MissingRequiredClaimError", "Token is missing the exp claim")
    ELSE IF token.payload.iat = "nonint"
    THEN Raise("InvalidIssuedAtError", "Issued At claim (iat) must be an integer")
    ELSE IF token.payload.exp = "nonint"
    THEN Raise("DecodeError", "Expiration Time claim (exp) must be an integer")
    ELSE IF token.payload.exp = "past"
    THEN Raise("ExpiredSignatureError", "Signature has expired")
    ELSE Return(token.payload)

\* jwt.decode as called by decode_jwt_token: structure, then signature, then
\* the required claim, then iat, then exp (verify_signature, verify_exp,
\* require exp).  A string that still carries "Bearer " is not a JWT.
jwt_decode(token) ==
    IF token.form # "jwt" \/ token.prefixed
    THEN Raise("DecodeError", "Not enough segments")
    ELSE IF token.secret # "configured"
    THEN Raise("InvalidSignatureError", "Signature verification failed")
    ELSE IF token.payload.exp = "absent"
    THEN Raise("MissingRequiredClaimError", "Token is missing the exp claim")
    ELSE IF token.payload.iat = "nonint"
    THEN Raise("InvalidIssuedAtError", "Issued At claim (iat) must be an integer")
    ELSE IF token.payload.exp = "nonint"
    THEN Raise("DecodeError", "Expiration Time claim (exp) must be an integer")
    ELSE IF token.payload.exp = "past"
    THEN Raise("ExpiredSignatureError", "Signature has expired")
    ELSE Return(token.payload)

\* mutant: the clause for the base class jwt.InvalidTokenError tried first
decode_jwt_token_base_first(token) ==
    LET r == jwt_decode(token) IN
    IF r.ok THEN r ELSE Raise("InvalidTokenError", "Invalid token")

\* the except clauses of decode_jwt_token, tried in source order; every jwt
\* error derives from jwt.InvalidTokenError, InvalidSignatureError from DecodeError
decode_jwt_token(token) ==
    LET r == jwt_decode(token) IN
    IF r.ok THEN r
    ELSE IF r.exc = "ExpiredSignatureError"
    THEN Raise("TokenExpiredError", "Token has expired")
    ELSE IF r.exc = "InvalidSignatureError"
    THEN Raise("InvalidTokenError", "Invalid token signature")
    ELSE IF r.exc = "DecodeError"
    THEN Raise("InvalidTokenError", "Token decode error")
    ELSE Raise("InvalidTokenError", "Invalid token")

\* mutant: the custom claim tried before the registered one
user_id_claims_swapped == <<"user_id", "sub", "userId", "id">>

user_id_claims == <<"sub", "user_id", "userId", "id">>

\* the for loop of extract_user_id from position i on
RECURSIVE extract_from(_, _)
extract_from(payload, i) ==
    IF i > Len(user_id_claims)
    THEN Raise("InvalidTokenError", "No user ID found in token")
    ELSE LET user_id == payload[user_id_claims[i]] IN
         IF IsNotNone(user_id) THEN Return(PyStr(user_id))
         ELSE extract_from(payload, i + 1)

extract_user_id(payload) == extract_from(payload, 1)

\* datetime.utcfromtimestamp(ts): raises on a value that is no number or is
\* out of the range of datetime
utcfromtimestamp(ts) ==
    IF ts = "nonint" THEN Raise("TypeError", "an integer is required")
    ELSE IF ts = "overflow" THEN Raise("OverflowError", "timestamp out of range")
    ELSE Return(ts)

JWTPayload(user_id, email, exp, iat, raw) ==
    [user_id |-> user_id, email |-> email, exp |-> exp, iat |-> iat, raw |-> raw]

parse_jwt_payload(payload) ==
    LET user_id == extract_user_id(payload)
        email == IF payload.email.t = "absent" THEN "" ELSE PyStr(payload.email)
        exp == utcfromtimestamp(payload.exp)
        iat == IF payload.iat = "absent" THEN Return("absent")
               ELSE utcfromtimestamp(payload.iat)
    IN  IF ~user_id.ok THEN user_id
        ELSE IF payload.exp = "absent"
        THEN Raise("InvalidTokenError", "Token missing expiration claim")
        ELSE IF ~exp.ok THEN exp
        ELSE IF ~iat.ok THEN iat
        ELSE Return(JWTPayload(user_id.val, email, exp.val, iat.val, payload))

\* token[7:] when token.startswith("Bearer ")
StripBearer(token) == [token EXCEPT !.prefixed = FALSE]

\* mutant: no except Exception clause, an unexpected error leaves the function
verify_jwt_token_no_catch_all(token) ==
    LET stripped == StripBearer(token)
        payload == decode_jwt_token(stripped)
        r == IF payload.ok THEN parse_jwt_payload(payload.val) ELSE payload
    IN  IF r.ok THEN r
        ELSE IF r.exc = "TokenExpiredError"
        THEN HTTPException(401, "Token has expired", "Bearer")
        ELSE IF r.exc = "InvalidTokenError"
        THEN HTTPException(401, r.msg, "Bearer")
        ELSE r

verify_jwt_token(token) ==
    LET stripped == StripBearer(token)
        payload == decode_jwt_token(stripped)
        r == IF payload.ok THEN parse_jwt_payload(payload.val) ELSE payload
    IN  IF r.ok THEN r
        ELSE IF r.exc = "TokenExpiredError"
        THEN HTTPException(401, "Token has expired", "Bearer")
        ELSE IF r.exc = "InvalidTokenError"
        THEN HTTPException(401, r.msg, "Bearer")
        ELSE HTTPException(401, "Token verification failed", "Bearer")

---------------------------------------------------------------------------
(* app/auth/dependencies.py                                                *)

\* mutant: the ids compared without regard to case
LowerCase(x) == IF x = "A" THEN "a" ELSE IF x = "B" THEN "b" ELSE x
verify_user_access_nocase(user_id, current_user) ==
    IF LowerCase(current_user.user_id) # LowerCase(user_id)
    THEN HTTPException(403, "Access denied: You can only access your own resources", "")
    ELSE Return(current_user)

\* mutant: the comparison is missing
verify_user_access_always(user_id, current_user) == Return(current_user)

verify_user_access(user_id, current_user) ==
    IF current_user.user_id # user_id
    THEN HTTPException(403, "Access denied: You can only access your own resources", "")
    ELSE Return(current_user)

---------------------------------------------------------------------------
(* SpecAuth: the authentication functions applied to every token of Tokens *)
(* and every path owner id of PathIds.                                     *)

NoAuthOut == [done |-> FALSE]

AuthOut(token, path) ==
    LET verified == verify_jwt_token(token) IN
    [done |-> TRUE,
     path |-> path,
     decoded |-> decode_jwt_token(token),
     extracted |-> extract_user_id(token.payload),
     verified |-> verified,
     guarded |-> IF verified.ok THEN verify_user_access(path, verified.val)
                 ELSE verified]

AuthRun(path) ==
    /\ ~authOut.done
    /\ authOut' = AuthOut(authIn, path)
    /\ UNCHANGED <<authIn, bearer403, db, nextId, now, reqs, hist, valIn, valOut, log, exitFirst, envIn, envOut>>

AuthNext == \E path \in PathIds : AuthRun(path)

---------------------------------------------------------------------------
(* app/config.py: Settings, constructed from the environment at import.    *)
(* A value of the environment is a sequence of characters; the secret is   *)
(* held as its length.                                                     *)

SECRET_MIN == 32

\* str.startswith
startswith(v, prefix) == Len(v) >= Len(prefix) /\ SubSeq(v, 1, Len(prefix)) = prefix

Chars_postgres == <<"p", "o", "s", "t", "g", "r", "e", "s">>
Chars_postgresql == Chars_postgres \o <<"q", "l">>
Chars_sep == <<":", "/", "/">>

\* an environment: DATABASE_URL, the length of BETTER_AUTH_SECRET,
\* JWT_ALGORITHM, DEBUG and CORS_ORIGINS, each a value or unset
Env(url, secret, alg, debug, cors) ==
    [DATABASE_URL |-> url, BETTER_AUTH_SECRET |-> secret, JWT_ALGORITHM |-> alg,
     DEBUG |-> debug, CORS_ORIGINS |-> cors]
EnvUnset == [set |-> FALSE, v |-> <<>>, n |-> 0]
EnvStr(v) == [set |-> TRUE, v |-> v, n |-> Len(v)]
\* a string of n characters whose content does not matter
EnvLen(n) == [set |-> TRUE, v |-> <<>>, n |-> n]
NoEnv == Env(EnvUnset, EnvUnset, EnvUnset, EnvUnset, EnvUnset)
NoEnvOut == [done |-> FALSE]

\* mutant: any URL that names postgres somewhere is accepted
validate_database_url_contains(v) ==
    IF v = <<>> THEN Raise("ValueError", "DATABASE_URL cannot be empty")
    ELSE IF ~\E k \in 1..Len(v) : startswith(SubSeq(v, k, Len(v)), Chars_postgres)
    THEN Raise("ValueError", "DATABASE_URL must be a PostgreSQL connection string")
    ELSE Return(v)

\* Settings.validate_database_url
validate_database_url(v) ==
    IF v = <<>> THEN Raise("ValueError", "DATABASE_URL cannot be empty")
    ELSE IF ~\E prefix \in {Chars_postgresql \o Chars_sep, Chars_postgres \o Chars_sep} :
                 startswith(v, prefix)
    THEN Raise("ValueError", "DATABASE_URL must be a PostgreSQL connection string")
    ELSE Return(v)

\* Settings.validate_auth_secret, on the length of the value
validate_auth_secret(n) ==
    IF n < SECRET_MIN
    THEN Raise("ValueError", "BETTER_AUTH_SECRET must be at least 32 characters long")
    ELSE Return(n)

\* bool parsing of pydantic for the values the environments carry
parse_bool(v) ==
    IF v \in {<<"t", "r", "u", "e">>, <<"1">>} THEN Return(TRUE)
    ELSE IF v \in {<<"f", "a", "l", "s", "e">>, <<"0">>} THEN Return(FALSE)
    ELSE Raise("ValueError", "bool_parsing")

\* Settings.parse_cors_origins for a value that is a list of one-character
\* origins separated by commas, with or without blanks around them:
\* [origin.strip() for origin in v.split(",") if origin.strip()]
RECURSIVE parse_cors_origins(_)
parse_cors_origins(v) ==
    IF v = <<>> THEN <<>>
    ELSE IF Head(v) \in {",", " "} THEN parse_cors_origins(Tail(v))
    ELSE <<Head(v)>> \o parse_cors_origins(Tail(v))

\* Settings(): each field from the environment or its default; the fields
\* that fail are collected in one ValidationError
Settings(env) ==
    LET url == IF ~env.DATABASE_URL.set THEN Raise("ValidationError", "missing")
               ELSE validate_database_url(env.DATABASE_URL.v)
        secret == IF ~env.BETTER_AUTH_SECRET.set THEN Raise("ValidationError", "missing")
                  ELSE IF env.BETTER_AUTH_SECRET.n < SECRET_MIN
                  THEN Raise("ValidationError", "string_too_short")
                  ELSE validate_auth_secret(env.BETTER_AUTH_SECRET.n)
        debug == IF env.DEBUG.set THEN parse_bool(env.DEBUG.v) ELSE Return(FALSE)
        errors == {f \in {"DATABASE_URL"} : ~url.ok}
                    \cup {f \in {"BETTER_AUTH_SECRET"} : ~secret.ok}
                    \cup {f \in {"DEBUG"} : ~debug.ok}
    IN
    IF errors # {} THEN [ok |-> FALSE, errors |-> errors]
    ELSE [ok |-> TRUE, errors |-> {},
          DATABASE_URL |-> url.val, BETTER_AUTH_SECRET |-> secret.val,
          JWT_ALGORITHM |-> IF env.JWT_ALGORITHM.set THEN env.JWT_ALGORITHM.v
                            ELSE <<"H", "S", "2", "5", "6">>,
          DEBUG |-> debug.val,
          CORS_ORIGINS |-> IF env.CORS_ORIGINS.set THEN parse_cors_origins(env.CORS_ORIGINS.v)
                           ELSE <<"http://localhost:3000">>]

\* the database URLs of the environments
Urls ==
    LET h == <<"h">> IN
    {<<>>, Chars_postgresql \o Chars_sep \o h, Chars_postgres \o Chars_sep \o h,
     Chars_postgresql \o Chars_sep, Chars_postgres \o Chars_sep,
     Chars_postgresql \o <<":", "/">> \o h, Chars_postgres \o h,
     <<"m", "y", "s", "q", "l">> \o Chars_sep \o h,
     <<" ">> \o Chars_postgresql \o Chars_sep \o h,
     <<"P">> \o Tail(Chars_postgresql) \o Chars_sep \o h,
     Chars_postgresql \o <<"+", "a">> \o Chars_sep \o h,
     h \o Chars_sep \o Chars_postgresql \o Chars_sep}

\* environments whose optional variables are unset or well-formed
Envs ==
    {Env(url, secret, alg, debug, cors) :
        url \in {EnvUnset} \cup {EnvStr(u) : u \in Urls},
        secret \in {EnvUnset} \cup {EnvLen(n) : n \in {0, SECRET_MIN - 1, SECRET_MIN, SECRET_MIN + 1}},
        alg \in {EnvUnset, EnvStr(<<"H", "S", "5", "1", "2">>)},
        debug \in {EnvUnset, EnvStr(<<"t", "r", "u", "e">>), EnvStr(<<"0">>)},
        cors \in {EnvUnset, EnvStr(<<"a", ",", " ", "b">>)}}

---------------------------------------------------------------------------
(* app/models/task.py: strings, request bodies and their validation.       *)
(* A string is held as its leading whitespace count, its core (the text    *)
(* between the outer whitespace, len characters) and its trailing          *)
(* whitespace count; a whitespace-only string has len = 0.                 *)

Txt(lead, core, len, trail) == [lead |-> lead, core |-> core, len |-> len, trail |-> trail]
EmptyTxt == Txt(0, "", 0, 0)
StrLen(s) == s.lead + s.len + s.trail
\* str.strip()
strip(s) == IF s.len = 0 THEN EmptyTxt ELSE Txt(0, s.core, s.len, 0)

\* a JSON field of a body, or a column value: key unset, null/None, or a string
Unset == [t |-> "unset", s |-> EmptyTxt]
None == [t |-> "null", s |-> EmptyTxt]
Str(s) == [t |-> "str", s |-> s]

TITLE_MIN == 1
TITLE_MAX == 200
DESC_MAX == 1000

\* outcome of validating one field: the value, or the kind of error
Valid(v) == [ok |-> TRUE, v |-> v, err |-> ""]
Invalid(kind) == [ok |-> FALSE, v |-> None, err |-> kind]

\* mutant: no max_length on the title
TaskCreate_title_unbounded(f) ==
    IF f.t = "unset" THEN Invalid("missing")
    ELSE IF f.t = "null" THEN Invalid("string_type")
    ELSE IF StrLen(f.s) < TITLE_MIN THEN Invalid("string_too_short")
    ELSE LET v == strip(f.s) IN
         IF StrLen(v) = 0 THEN Invalid("value_error") ELSE Valid(Str(v))

\* TaskCreate.title: required str, min_length/max_length on the value as
\* sent, then validate_title
TaskCreate_title(f) ==
    IF f.t = "unset" THEN Invalid("missing")
    ELSE IF f.t = "null" THEN Invalid("string_type")
    ELSE IF StrLen(f.s) < TITLE_MIN THEN Invalid("string_too_short")
    ELSE IF StrLen(f.s) > TITLE_MAX THEN Invalid("string_too_long")
    ELSE LET v == strip(f.s) IN
         IF StrLen(v) = 0 THEN Invalid("value_error") ELSE Valid(Str(v))

\* mutant: validate_description returns the stripped string even when empty
Task_description_keeping(f) ==
    IF f.t = "unset" THEN Valid(None)
    ELSE IF f.t = "null" THEN Valid(None)
    ELSE IF StrLen(f.s) > DESC_MAX THEN Invalid("string_too_long")
    ELSE Valid(Str(strip(f.s)))

\* TaskCreate.description / TaskUpdate.description: Optional[str], default
\* None, max_length on the value as sent, then validate_description
Task_description(f) ==
    IF f.t = "unset" THEN Valid(None)
    ELSE IF f.t = "null" THEN Valid(None)
    ELSE IF StrLen(f.s) > DESC_MAX THEN Invalid("string_too_long")
    ELSE LET v == strip(f.s) IN
         IF StrLen(v) = 0 THEN Valid(None) ELSE Valid(Str(v))

\* mutant: validate_title returns None for a title that is empty once stripped
TaskUpdate_title_dropping(f) ==
    IF f.t = "unset" THEN Valid(None)
    ELSE IF f.t = "null" THEN Valid(None)
    ELSE IF StrLen(f.s) < TITLE_MIN THEN Invalid("string_too_short")
    ELSE IF StrLen(f.s) > TITLE_MAX THEN Invalid("string_too_long")
    ELSE LET v == strip(f.s) IN
         IF StrLen(v) = 0 THEN Valid(None) ELSE Valid(Str(v))

\* TaskUpdate.title: Optional[str], default None
TaskUpdate_title(f) ==
    IF f.t = "unset" THEN Valid(None)
    ELSE IF f.t = "null" THEN Valid(None)
    ELSE IF StrLen(f.s) < TITLE_MIN THEN Invalid("string_too_short")
    ELSE IF StrLen(f.s) > TITLE_MAX THEN Invalid("string_too_long")
    ELSE LET v == strip(f.s) IN
         IF StrLen(v) = 0 THEN Invalid("value_error") ELSE Valid(Str(v))

\* a JSON body: its two fields; malformed when the bytes sent are not JSON
Body(title, description) ==
    [title |-> title, description |-> description, malformed |-> FALSE]
NoBody == Body(Unset, Unset)
MalformedBody == [NoBody EXCEPT !.malformed = TRUE]

\* the validated model: field values, the fields explicitly set, and the
\* fields whose validation failed
Model(title, description, body) ==
    [title |-> title.v, description |-> description.v,
     fields_set |-> {f \in {"title", "description"} : body[f].t # "unset"},
     errors |-> {f \in {"title"} : ~title.ok} \cup {f \in {"description"} : ~description.ok}]

TaskCreate(body) == Model(TaskCreate_title(body.title), Task_description(body.description), body)
TaskUpdate(body) == Model(TaskUpdate_title(body.title), Task_description(body.description), body)

\* mutant: model_dump() without exclude_unset, the defaults are applied too
ApplyUpdate_all(task, task_data) ==
    [task EXCEPT !.title = task_data.title, !.description = task_data.description]

---------------------------------------------------------------------------
(* SpecValid: the two request models applied to bodies whose strings have  *)
(* lengths at the edges of the bounds, with and without outer whitespace.  *)

\* strings of n characters between lead and trail whitespace characters
EdgeStrings(lens) ==
    {Str(Txt(lead, IF n = 0 THEN "" ELSE "x", n, trail)) :
        lead \in {0, 1}, n \in lens, trail \in {0, 1}}

EdgeTitles ==
    {Unset, None} \cup EdgeStrings({0, TITLE_MIN, TITLE_MAX - 1, TITLE_MAX, TITLE_MAX + 1})
EdgeDescriptions ==
    {Unset, None} \cup EdgeStrings({0, 1, DESC_MAX - 1, DESC_MAX, DESC_MAX + 1})
EdgeBodies == {Body(t, d) : t \in EdgeTitles, d \in EdgeDescriptions}

NoValOut == [done |-> FALSE]

\* the body parsed as the TaskCreate of create_task or the TaskUpdate of update_task
ValidRun(op) ==
    /\ ~valOut.done
    /\ valOut' = [done |-> TRUE, op |-> op,
                  model |-> IF op = "create" THEN TaskCreate(valIn) ELSE TaskUpdate(valIn)]
    /\ UNCHANGED <<authIn, authOut, bearer403, db, nextId, now, reqs, hist, valIn, log, exitFirst, envIn, envOut>>

ValidNext == \E op \in {"create", "update"} : ValidRun(op)

\* task_data.model_dump(exclude_unset=True) applied by setattr to the row
ApplyUpdate(task, task_data) ==
    [task EXCEPT !.title = IF "title" \in task_data.fields_set
                           THEN task_data.title ELSE @,
                 !.description = IF "description" \in task_data.fields_set
                                 THEN task_data.description ELSE @]

\* a row of table "tasks" / a Task object
Task(id, user_id, title, description, completed, created_at, updated_at) ==
    [id |-> id, user_id |-> user_id, title |-> title, description |-> description,
     completed |-> completed, created_at |-> created_at, updated_at |-> updated_at]
NoTask == Task(0, "", None, None, FALSE, 0, 0)
Columns == {"id", "user_id", "title", "description", "completed", "created_at", "updated_at"}

---------------------------------------------------------------------------
(* Requests.                                                               *)

\* the request slots of the run: requests in flight at once
Slots == DOMAIN reqs
Ops == {"list", "create", "get", "update", "delete", "toggle"}
Users == {"A", "B"}
TaskIds == 1..MaxTasks
StatusFilters == {"none", "all", "pending", "completed"}

\* the Authorization header: absent, or "Bearer <token>"
Header(token) == [present |-> TRUE, token |-> token]
NoHeader == [present |-> FALSE, token |-> Token("empty", FALSE, "configured", NoPayload)]

SubToken(u, secret, exp) ==
    Token("jwt", FALSE, secret, Payload(StrV(u), Absent, Absent, Absent, exp, "valid"))
Headers == {NoHeader, Header(SubToken("A", "configured", "future")),
            Header(SubToken("B", "configured", "future")),
            Header(SubToken("A", "configured", "past")),
            Header(SubToken("A", "other", "future"))}

\* bodies sent: no title, null, " x ", "", whitespace only; no description,
\* "d ", whitespace only
Titles == {Unset, None, Str(Txt(1, "x", 1, 1)), Str(EmptyTxt), Str(Txt(2, "", 0, 0))}
Descriptions == {Unset, Str(Txt(0, "d", 1, 1)), Str(Txt(1, "", 0, 0))}
Bodies == {Body(t, d) : t \in Titles, d \in Descriptions}

\* the inputs each route takes besides the header and the path owner id
TaskIdsOf(op) == IF op \in {"list", "create"} THEN {0} ELSE TaskIds
FiltersOf(op) == IF op = "list" THEN StatusFilters ELSE {"none"}
BodiesOf(op) == IF op \in {"create", "update"} THEN Bodies ELSE {NoBody}

\* the response sent to the client; errors is the "field" of each entry of
\* the error list of a validation error response
Response(status, www, detail, tasks) ==
    [status |-> status, www |-> www, detail |-> detail, tasks |-> tasks, errors |-> {}]
NoResponse == Response(0, "", "", <<>>)

\* app/utils/exceptions.py: the three registered handlers
http_exception_handler(exc) == Response(exc.status, exc.www, exc.msg, <<>>)
validation_exception_handler(errors) ==
    [Response(422, "", "Validation error", <<>>) EXCEPT
        !.errors = {"body." \o field : field \in errors}]
\* mutant: the message of the exception is sent as the detail
general_exception_handler_echo(exc) == Response(500, "", exc.msg, <<>>)
general_exception_handler(exc) == Response(500, "", "Internal server error", <<>>)

\* the handler chosen for an exception that leaves the route
HandleException(exc) ==
    IF exc.exc = "HTTPException" THEN http_exception_handler(exc)
    ELSE general_exception_handler(exc)

\* security = HTTPBearer(auto_error=True): the credentials of the header, or
\* the library's "Not authenticated" error (401 with WWW-Authenticate, or 403
\* without it, depending on the installed FastAPI)
security(hdr) ==
    IF hdr.present THEN Return(hdr.token)
    ELSE IF bearer403 THEN HTTPException(403, "Not authenticated", "")
    ELSE HTTPException(401, "Not authenticated", "Bearer")

get_current_user(hdr) ==
    LET credentials == security(hdr) IN
    IF credentials.ok THEN verify_jwt_token(credentials.val) ELSE credentials

\* mutant: the route depends on get_current_user only
AccessDependency_unguarded(user_id, hdr) == get_current_user(hdr)

\* Depends(verify_user_access): its sub-dependency get_current_user first
AccessDependency(user_id, hdr) ==
    LET current_user == get_current_user(hdr) IN
    IF current_user.ok THEN verify_user_access(user_id, current_user.val)
    ELSE current_user

NotFound(task_id) ==
    HTTPException(404, "Task with id " \o ToString(task_id) \o " not found", "")

Request(pc, op, hdr, path, tid, filter, body) ==
    [pc |-> pc, op |-> op, hdr |-> hdr, path |-> path, tid |-> tid,
     filter |-> filter, body |-> body,
     user |-> "",          \* current_user.user_id once the dependency returned
     sess |-> "none",      \* the session of get_session: none, open, closed
     raised |-> FALSE,     \* an exception left the route or the body validation
     cause |-> Return(Null), \* ghost: the exception that was handled last, if any
     calls |-> <<>>,       \* the session calls get_session made after its yield
     clock |-> 0,          \* the reading of datetime.utcnow() in the route
     orig |-> NoTask,      \* the row as loaded by the lookup
     obj |-> NoTask,       \* the Task object held by the session
     resp |-> NoResponse,
     seen |-> "",          \* ghost: what the store held under tid at the lookup, or
                           \* the outcome of the query of the health check
     queried |-> FALSE,    \* ghost: a statement was sent to storage
     wrote |-> FALSE]      \* ghost: a statement of this request changed the store

Idle == Request("idle", "list", NoHeader, "A", 0, "none", NoBody)

\* an exception leaves the dependencies or the route: the handler answers
Fail(req, exc) ==
    [req EXCEPT !.pc = "done", !.resp = HandleException(exc), !.raised = TRUE, !.cause = exc]

\* the route returned: the response
Succeed(req, status, tasks) ==
    [req EXCEPT !.pc = "done", !.resp = Response(status, "", "", tasks)]

---------------------------------------------------------------------------
(* app/database.py                                                         *)

\* mutant: close is called after the commit only, there is no finally clause
get_session_no_finally(raised, commit_raises, rollback_raises) ==
    LET rollback == IF rollback_raises THEN "rollback raises" ELSE "rollback" IN
    IF raised THEN <<rollback>>
    ELSE IF commit_raises THEN <<"commit raises", rollback>>
    ELSE <<"commit", "close">>

\* get_session after its yield: the session calls it makes, in order.  An
\* exception of the route is thrown in at the yield; a commit that raises is
\* caught by the same except clause; the finally clause runs in every case.
get_session(raised, commit_raises, rollback_raises) ==
    LET rollback == IF rollback_raises THEN "rollback raises" ELSE "rollback" IN
    IF raised THEN <<rollback, "close">>
    ELSE IF commit_raises THEN <<"commit raises", rollback, "close">>
    ELSE <<"commit", "close">>

\* what leaves get_session once its exit code has run: nothing, the
\* exception that was thrown in at the yield (re-raised after the rollback),
\* or the error of the commit or of the rollback that failed
get_session_exit(raised, commit_raises, rollback_raises) ==
    IF raised THEN (IF rollback_raises THEN "error" ELSE "reraised")
    ELSE IF commit_raises THEN "error"
    ELSE "none"

---------------------------------------------------------------------------
(* Storage: the statements the routes send through their session.          *)

\* mutant: the lookup filters by id only
Matches_id_only(row, task_id, user_id) == row.id = task_id

\* select(Task).where(Task.id == task_id, Task.user_id == user_id)
Matches(row, task_id, user_id) == row.id = task_id /\ row.user_id = user_id

\* mutant: the point lookup returns the row of any owner
SelectOne_any_owner(task_id, user_id) ==
    IF task_id \in DOMAIN db THEN task_id ELSE 0

\* result.scalar_one_or_none() of the point lookup: the id of the row or 0
SelectOne(task_id, user_id) ==
    IF task_id \in DOMAIN db /\ Matches(db[task_id], task_id, user_id)
    THEN task_id ELSE 0

\* mutant: the query does not filter by owner
ListMatches_any_owner(row, user_id, status_filter) ==
    /\ status_filter = "pending" => row.completed = FALSE
    /\ status_filter = "completed" => row.completed = TRUE

\* the where clauses of list_tasks
ListMatches(row, user_id, status_filter) ==
    /\ row.user_id = user_id
    /\ status_filter = "pending" => row.completed = FALSE
    /\ status_filter = "completed" => row.completed = TRUE

\* order_by(Task.created_at.desc()): any order of the rows that is
\* descending in created_at
IsListResult(seq, user_id, status_filter) ==
    LET ids == {i \in DOMAIN db : ListMatches(db[i], user_id, status_filter)} IN
    /\ Len(seq) = Cardinality(ids)
    /\ {seq[k].id : k \in 1..Len(seq)} = ids
    /\ \A k \in 1..Len(seq) : seq[k] = db[seq[k].id]
    /\ \A k \in 1..Len(seq) - 1 : seq[k].created_at >= seq[k + 1].created_at

RowSeqs == UNION {[1..n -> {db[i] : i \in DOMAIN db}] : n \in 0..Cardinality(DOMAIN db)}

\* the columns the flush writes: those whose value differs from the loaded one
Changed(req) == {c \in Columns : req.obj[c] # req.orig[c]}

\* UPDATE tasks SET <changed columns> WHERE id = :id
Updated(row, req) == [c \in Columns |-> IF c \in Changed(req) THEN req.obj[c] ELSE row[c]]

\* mutant: the row is kept
Deleted_nothing(id) == db

\* the rows left by DELETE FROM tasks WHERE id = :id
Deleted(id) == [i \in DOMAIN db \ {id} |-> db[i]]

\* the rows after INSERT INTO tasks of a row with the next id of the sequence
Inserted(task) == [i \in DOMAIN db \cup {nextId} |-> IF i = nextId THEN task ELSE db[i]]

\* ghost: the log entry of a row just inserted
Logged(task) ==
    [created_at |-> task.created_at, deleted |-> FALSE, rows |-> <<>>,
     toggled |-> 0, answered |-> 0]

\* ghost: the log entry after a committed toggle; rows holds the row before
\* the first of the latest consecutive toggles and the rows they wrote, the
\* last three of them; toggled counts these toggles, up to three
Toggled(entry, before, after) ==
    LET rows == IF entry.rows = <<>> THEN <<before, after>> ELSE Append(entry.rows, after) IN
    [entry EXCEPT !.rows = IF Len(rows) > 3 THEN Tail(rows) ELSE rows,
                  !.toggled = IF @ < 3 THEN @ + 1 ELSE @]

\* ghost: the log entry after a toggle was answered 200; answered counts the
\* toggles answered since the row was last written by another statement, up
\* to three
Answered(entry) == [entry EXCEPT !.answered = IF @ < 3 THEN @ + 1 ELSE @]

\* ghost: the log entry after an update or a delete of the row
Untoggled(entry, deleted) ==
    [entry EXCEPT !.rows = <<>>, !.deleted = deleted, !.toggled = 0, !.answered = 0]

---------------------------------------------------------------------------
(* The steps of a request.  A step runs the route from one storage call    *)
(* (the only suspension points) to the next.                               *)

InFlightCreates == Cardinality({r \in Slots : reqs[r].op = "create" /\ reqs[r].pc = "commit"})

\* a response that is ready is sent before anything else is scheduled
NoneDone == \A q \in Slots : reqs[q].pc # "done"

\* the clock advances
Tick ==
    /\ NoneDone
    /\ now < MaxClock
    /\ now' = now + 1
    /\ UNCHANGED <<authIn, authOut, bearer403, db, nextId, reqs, hist, valIn, valOut, log, exitFirst, envIn, envOut>>

\* create_task up to its commit: d is the time that passes between the two
\* datetime.utcnow() calls of the Task(...) expression
NewTask(user_id, task_data, d) ==
    Task(0, user_id, task_data.title, task_data.description, FALSE, now, now + d)

\* mutant: the fields of the body are validated before the dependencies
\* are resolved
ReceiveWithin_validate_first(limit, r, op, hdr, path, tid, filter, body, d) ==
    LET access == AccessDependency(path, hdr)
        req == Request("idle", op, hdr, path, tid, filter, body)
        authed == [req EXCEPT !.user = access.val.user_id, !.sess = "open"]
        task_data == IF op = "create" THEN TaskCreate(body) ELSE TaskUpdate(body)
    IN
    /\ NoneDone
    /\ reqs[r].pc = "idle"
    /\ op = "create" => nextId + InFlightCreates <= limit
    /\ IF op \in {"create", "update"} /\ body.malformed
       THEN /\ reqs' = [reqs EXCEPT ![r] =
                          [req EXCEPT !.pc = "done", !.raised = TRUE,
                              !.cause = Raise("RequestValidationError", "JSON decode error"),
                              !.resp = validation_exception_handler({"1"})]]
            /\ now' = now
       ELSE IF op \in {"create", "update"} /\ task_data.errors # {}
       THEN /\ reqs' = [reqs EXCEPT ![r] =
                          [req EXCEPT !.pc = "done", !.raised = TRUE,
                              !.cause = Raise("RequestValidationError", "Validation error"),
                              !.resp = validation_exception_handler(task_data.errors)]]
            /\ now' = now
       ELSE IF ~access.ok
       THEN /\ reqs' = [reqs EXCEPT ![r] =
                          Fail(Request("idle", op, hdr, path, 0, "none", NoBody), access)]
            /\ now' = now
       ELSE IF op = "create"
       THEN /\ now + d <= MaxClock
            /\ reqs' = [reqs EXCEPT ![r] =
                          [authed EXCEPT !.pc = "commit",
                                         !.obj = NewTask(path, task_data, d)]]
            /\ now' = now + d
       ELSE /\ reqs' = [reqs EXCEPT ![r] = [authed EXCEPT !.pc = "lookup"]]
            /\ now' = now
    /\ UNCHANGED <<authIn, authOut, bearer403, db, nextId, hist, valIn, valOut, log, exitFirst,
                   envIn, envOut>>

\* A request arrives: FastAPI reads the body and parses it as JSON (bytes
\* that are not JSON are answered 422, with the position of the error as
\* the field), resolves Depends(verify_user_access), then
\* Depends(get_session), then validates the fields of the body, then enters
\* the route, which runs to its first storage call.
ReceiveWithin(limit, r, op, hdr, path, tid, filter, body, d) ==
    LET access == AccessDependency(path, hdr)
        req == Request("idle", op, hdr, path, tid, filter, body)
        authed == [req EXCEPT !.user = access.val.user_id, !.sess = "open"]
        task_data == IF op = "create" THEN TaskCreate(body) ELSE TaskUpdate(body)
    IN
    /\ NoneDone
    /\ reqs[r].pc = "idle"
    /\ op = "create" => nextId + InFlightCreates <= limit
    /\ IF op \in {"create", "update"} /\ body.malformed
       THEN /\ reqs' = [reqs EXCEPT ![r] =
                          [req EXCEPT !.pc = "done", !.raised = TRUE,
                              !.cause = Raise("RequestValidationError", "JSON decode error"),
                              !.resp = validation_exception_handler({"1"})]]
            /\ now' = now
       ELSE IF ~access.ok
       THEN /\ reqs' = [reqs EXCEPT ![r] =
                          Fail(Request("idle", op, hdr, path, 0, "none", NoBody), access)]
            /\ now' = now
       ELSE IF op \in {"create", "update"} /\ task_data.errors # {}
       THEN /\ reqs' = [reqs EXCEPT ![r] =
                          [authed EXCEPT !.pc = "done", !.raised = TRUE,
                              !.cause = Raise("RequestValidationError", "Validation error"),
                              !.resp = validation_exception_handler(task_data.errors)]]
            /\ now' = now
       ELSE IF op = "create"
       THEN /\ now + d <= MaxClock
            /\ reqs' = [reqs EXCEPT ![r] =
                          [authed EXCEPT !.pc = "commit",
                                         !.obj = NewTask(path, task_data, d)]]
            /\ now' = now + d
       ELSE /\ reqs' = [reqs EXCEPT ![r] = [authed EXCEPT !.pc = "lookup"]]
            /\ now' = now
    /\ UNCHANGED <<authIn, authOut, bearer403, db, nextId, hist, valIn, valOut, log, exitFirst, envIn, envOut>>

\* a request of a run that inserts at most MaxTasks rows
Receive(r, op, hdr, path, tid, filter, body, d) ==
    ReceiveWithin(MaxTasks, r, op, hdr, path, tid, filter, body, d)

\* get_session resumed after its yield, with the exception thrown in when
\* one was raised: commit or rollback, then close.  The database may fail
\* the commit and the rollback.  Where the exit code runs before the
\* response is sent, an error of the commit or the rollback reaches the
\* exception handlers and replaces the response; elsewhere the response is
\* already on its way.
CloseSession(r, commit_raises, rollback_raises) ==
    LET calls == get_session(reqs[r].raised, commit_raises, rollback_raises)
        exit == get_session_exit(reqs[r].raised, commit_raises, rollback_raises)
        error == Raise("PendingRollbackError", "Can't reconnect until invalid transaction is rolled back")
    IN
    /\ reqs[r].pc = "done" /\ reqs[r].sess = "open" /\ reqs[r].calls = <<>>
    /\ reqs' = [reqs EXCEPT ![r] =
                  [@ EXCEPT !.calls = calls,
                            !.sess = IF calls[Len(calls)] = "close" THEN "closed" ELSE "open",
                            !.resp = IF exitFirst /\ exit = "error"
                                     THEN HandleException(error) ELSE @,
                            !.cause = IF exitFirst /\ exit = "error" THEN error ELSE @]]
    /\ UNCHANGED <<authIn, authOut, bearer403, db, nextId, now, hist, valIn, valOut, log, exitFirst, envIn, envOut>>

\* the response has been sent and the dependencies have exited: the slot is
\* free again
Deliver(r) ==
    /\ reqs[r].pc = "done"
    /\ reqs[r].sess = "none" \/ reqs[r].calls # <<>>
    /\ reqs' = [reqs EXCEPT ![r] = Idle]
    /\ UNCHANGED <<authIn, authOut, bearer403, db, nextId, now, hist, valIn, valOut, log, exitFirst, envIn, envOut>>

\* list_tasks: the one query, then the response
ListTasks(r) ==
    LET req == reqs[r] IN
    /\ NoneDone
    /\ req.pc = "lookup" /\ req.op = "list"
    /\ \E tasks \in RowSeqs :
         /\ IsListResult(tasks, req.path, req.filter)
         /\ reqs' = [reqs EXCEPT ![r] = Succeed([req EXCEPT !.queried = TRUE], 200, tasks)]
    /\ UNCHANGED <<authIn, authOut, bearer403, db, nextId, now, hist, valIn, valOut, log, exitFirst, envIn, envOut>>

\* mutant: update and toggle stamp created_at as well
AfterLookup_restamp(req, task) ==
    IF req.op = "get" THEN Succeed(req, 200, <<task>>)
    ELSE IF req.op = "update"
    THEN [req EXCEPT !.pc = "commit", !.orig = task,
            !.obj = [ApplyUpdate(task, TaskUpdate(req.body)) EXCEPT
                        !.updated_at = now, !.created_at = now]]
    ELSE IF req.op = "toggle"
    THEN [req EXCEPT !.pc = "commit", !.orig = task,
            !.obj = [task EXCEPT !.completed = ~task.completed,
                                 !.updated_at = now, !.created_at = now]]
    ELSE [req EXCEPT !.pc = "commit", !.orig = task, !.obj = task]

\* what get_task, update_task, delete_task and toggle_task_completion do with
\* the row their lookup returned, up to their next storage call
AfterLookup(req, task) ==
    IF req.op = "get" THEN Succeed(req, 200, <<task>>)
    ELSE IF req.op = "update"
    THEN [req EXCEPT !.pc = "commit", !.orig = task,
            !.obj = [ApplyUpdate(task, TaskUpdate(req.body)) EXCEPT !.updated_at = now]]
    ELSE IF req.op = "toggle"
    THEN [req EXCEPT !.pc = "commit", !.orig = task,
            !.obj = [task EXCEPT !.completed = ~task.completed, !.updated_at = now]]
    ELSE [req EXCEPT !.pc = "commit", !.orig = task, !.obj = task]

\* the point lookup of get, update, delete and toggle
Lookup(r) ==
    LET req == [reqs[r] EXCEPT !.queried = TRUE, !.clock = now,
                  !.seen = IF reqs[r].tid \notin DOMAIN db THEN "missing"
                           ELSE IF db[reqs[r].tid].user_id = reqs[r].path THEN "own"
                           ELSE "foreign"]
        id == SelectOne(req.tid, req.path)
    IN
    /\ NoneDone
    /\ req.pc = "lookup" /\ req.op # "list"
    /\ reqs' = [reqs EXCEPT ![r] = IF id = 0 THEN Fail(req, NotFound(req.tid))
                                   ELSE AfterLookup(req, db[id])]
    /\ UNCHANGED <<authIn, authOut, bearer403, db, nextId, now, hist, valIn, valOut, log, exitFirst, envIn, envOut>>

\* mutant: the id is one more than the largest stored id, as for a key
\* without a sequence
CommitCreate_reuse(r) ==
    LET req == reqs[r]
        id == IF DOMAIN db = {} THEN 1
              ELSE 1 + CHOOSE i \in DOMAIN db : \A j \in DOMAIN db : j <= i
        task == [req.obj EXCEPT !.id = id]
    IN
    /\ NoneDone
    /\ req.pc = "commit" /\ req.op = "create"
    /\ db' = [i \in DOMAIN db \cup {id} |-> IF i = id THEN task ELSE db[i]]
    /\ nextId' = nextId + 1
    /\ hist' = [i \in DOMAIN hist \cup {id} |-> IF i = id THEN req.user ELSE hist[i]]
    /\ log' = [i \in DOMAIN log \cup {id} |-> IF i = id THEN Logged(task) ELSE log[i]]
    /\ reqs' = [reqs EXCEPT ![r] = [req EXCEPT !.pc = "refresh", !.obj = task,
                                       !.queried = TRUE, !.wrote = TRUE]]
    /\ UNCHANGED <<authIn, authOut, bearer403, now, valIn, valOut, exitFirst, envIn, envOut>>

\* create_task: session.add(task); await session.commit()
CommitCreate(r) ==
    LET req == reqs[r]
        task == [req.obj EXCEPT !.id = nextId]
    IN
    /\ NoneDone
    /\ req.pc = "commit" /\ req.op = "create"
    /\ db' = Inserted(task)
    /\ nextId' = nextId + 1
    /\ hist' = [i \in DOMAIN hist \cup {nextId} |-> IF i = nextId THEN req.user ELSE hist[i]]
    /\ log' = [i \in DOMAIN log \cup {nextId} |-> IF i = nextId THEN Logged(task) ELSE log[i]]
    /\ reqs' = [reqs EXCEPT ![r] = [req EXCEPT !.pc = "refresh", !.obj = task,
                                       !.queried = TRUE, !.wrote = TRUE]]
    /\ UNCHANGED <<authIn, authOut, bearer403, now, valIn, valOut, exitFirst, envIn, envOut>>

\* mutant: an UPDATE that matches no row inserts the object instead
CommitUpdate_upsert(r) ==
    LET req == reqs[r]
        id == req.obj.id
    IN
    /\ NoneDone
    /\ req.pc = "commit" /\ req.op \in {"update", "toggle"}
    /\ reqs' = [reqs EXCEPT ![r] = [req EXCEPT !.pc = "refresh",
                                       !.queried = TRUE, !.wrote = TRUE]]
    /\ db' = [i \in DOMAIN db \cup {id} |-> IF i = id THEN req.obj ELSE db[i]]
    /\ log' = [log EXCEPT ![id] = Untoggled(@, FALSE)]
    /\ UNCHANGED <<authIn, authOut, bearer403, nextId, now, hist, valIn, valOut, exitFirst,
                   envIn, envOut>>

\* update_task, toggle_task_completion: session.add(task); await session.commit()
CommitUpdate(r) ==
    LET req == reqs[r]
        id == req.obj.id
    IN
    /\ NoneDone
    /\ req.pc = "commit" /\ req.op \in {"update", "toggle"}
    /\ IF Changed(req) = {}
       THEN /\ reqs' = [reqs EXCEPT ![r] = [req EXCEPT !.pc = "refresh"]]
            /\ db' = db
            /\ log' = IF id \in DOMAIN db THEN [log EXCEPT ![id] = Untoggled(@, FALSE)] ELSE log
       ELSE IF id \notin DOMAIN db
       THEN /\ reqs' = [reqs EXCEPT ![r] =
                          Fail([req EXCEPT !.queried = TRUE],
                               Raise("StaleDataError", "UPDATE matched 0 rows"))]
            /\ db' = db
            /\ log' = log
       ELSE IF req.obj.title = None
       THEN /\ reqs' = [reqs EXCEPT ![r] =
                          Fail([req EXCEPT !.queried = TRUE],
                               Raise("IntegrityError", "null value in column title"))]
            /\ db' = db
            /\ log' = log
       ELSE /\ reqs' = [reqs EXCEPT ![r] = [req EXCEPT !.pc = "refresh",
                                               !.queried = TRUE, !.wrote = TRUE]]
            /\ db' = [db EXCEPT ![id] = Updated(@, req)]
            /\ log' = [log EXCEPT ![id] = IF req.op = "toggle"
                                          THEN Toggled(@, db[id], Updated(db[id], req))
                                          ELSE Untoggled(@, FALSE)]
    /\ UNCHANGED <<authIn, authOut, bearer403, nextId, now, hist, valIn, valOut, exitFirst, envIn, envOut>>

\* delete_task: await session.delete(task); await session.commit()
CommitDelete(r) ==
    LET req == reqs[r]
        id == req.obj.id
    IN
    /\ NoneDone
    /\ req.pc = "commit" /\ req.op = "delete"
    /\ db' = Deleted(id)
    /\ log' = [log EXCEPT ![id] = Untoggled(@, TRUE)]
    /\ reqs' = [reqs EXCEPT ![r] =
                  Succeed([req EXCEPT !.queried = TRUE, !.wrote = (id \in DOMAIN db)], 204, <<>>)]
    /\ UNCHANGED <<authIn, authOut, bearer403, nextId, now, hist, valIn, valOut, exitFirst, envIn, envOut>>

\* await session.refresh(task); return task
Refresh(r) ==
    LET req == [reqs[r] EXCEPT !.queried = TRUE]
        id == req.obj.id
    IN
    /\ NoneDone
    /\ req.pc = "refresh"
    /\ reqs' = [reqs EXCEPT ![r] =
                  IF id \notin DOMAIN db
                  THEN Fail(req, Raise("InvalidRequestError", "Could not refresh instance"))
                  ELSE Succeed([req EXCEPT !.obj = db[id]],
                               IF req.op = "create" THEN 201 ELSE 200, <<db[id]>>)]
    /\ log' = IF req.op = "toggle" /\ id \in DOMAIN db
              THEN [log EXCEPT ![id] = Answered(@)] ELSE log
    /\ UNCHANGED <<authIn, authOut, bearer403, db, nextId, now, hist, valIn, valOut,
                   exitFirst, envIn, envOut>>

Next ==
    \/ Tick
    \/ \E r \in Slots, op \in Ops, hdr \in Headers, path \in Users :
         \E tid \in TaskIdsOf(op), filter \in FiltersOf(op), body \in BodiesOf(op),
            d \in {0, 1} :
              Receive(r, op, hdr, path, tid, filter, body, d)
    \/ \E r \in Slots, commit_raises \in BOOLEAN, rollback_raises \in BOOLEAN :
         CloseSession(r, commit_raises, rollback_raises)
    \/ \E r \in Slots : Deliver(r)
    \/ \E r \in Slots : ListTasks(r)
    \/ \E r \in Slots : Lookup(r)
    \/ \E r \in Slots : CommitCreate(r)
    \/ \E r \in Slots : CommitUpdate(r)
    \/ \E r \in Slots : CommitDelete(r)
    \/ \E r \in Slots : Refresh(r)

InitStore ==
    /\ db = [i \in {} |-> NoTask]
    /\ nextId = 1
    /\ now = 0
    /\ reqs = [r \in {"r1"} |-> Idle]
    /\ hist = [i \in {} |-> ""]
    /\ log = [i \in {} |-> Logged(NoTask)]

Init ==
    /\ authIn = Token("empty", FALSE, "configured", NoPayload)
    /\ envIn = NoEnv /\ envOut = NoEnvOut
    /\ exitFirst = FALSE
    /\ authOut = NoAuthOut
    /\ bearer403 \in BOOLEAN
    /\ valIn = NoBody
    /\ valOut = NoValOut
    /\ InitStore

Spec == Init /\ [][Next]_vars

AuthInit ==
    /\ authIn \in Tokens
    /\ envIn = NoEnv /\ envOut = NoEnvOut
    /\ exitFirst = FALSE
    /\ authOut = NoAuthOut
    /\ bearer403 = FALSE
    /\ valIn = NoBody
    /\ valOut = NoValOut
    /\ InitStore

SpecAuth == AuthInit /\ [][AuthNext]_vars

---------------------------------------------------------------------------
(* SpecList: list requests against every store of at most MaxListed rows.  *)

\* the rows a store can hold under an id: either owner, either completion
\* flag, any creation time
StoredRows(id) ==
    {Task(id, u, Str(Txt(0, "x", 1, 0)), None, c, at, at) :
        u \in Users, c \in BOOLEAN, at \in 0..MaxClock}

Stores ==
    UNION {{s \in [ids -> UNION {StoredRows(i) : i \in ids}] : \A i \in ids : s[i].id = i} :
              ids \in SUBSET (1..MaxListed)}

ListInit ==
    /\ authIn = Token("empty", FALSE, "configured", NoPayload)
    /\ envIn = NoEnv /\ envOut = NoEnvOut
    /\ exitFirst = FALSE
    /\ authOut = NoAuthOut
    /\ bearer403 \in BOOLEAN
    /\ valIn = NoBody
    /\ valOut = NoValOut
    /\ db \in Stores
    /\ nextId = MaxListed + 1
    /\ now = MaxClock
    /\ reqs = [r \in {"r1"} |-> Idle]
    /\ hist = [i \in DOMAIN db |-> db[i].user_id]
    /\ log = [i \in DOMAIN db |-> Logged(db[i])]

ListNext ==
    \/ \E r \in Slots, hdr \in Headers, path \in Users, filter \in StatusFilters :
         Receive(r, "list", hdr, path, 0, filter, NoBody, 0)
    \/ \E r \in Slots : ListTasks(r)
    \/ \E r \in Slots, commit_raises \in BOOLEAN, rollback_raises \in BOOLEAN :
         CloseSession(r, commit_raises, rollback_raises)
    \/ \E r \in Slots : Deliver(r)

SpecList == ListInit /\ [][ListNext]_vars

ValidInit ==
    /\ authIn = Token("empty", FALSE, "configured", NoPayload)
    /\ envIn = NoEnv /\ envOut = NoEnvOut
    /\ exitFirst = FALSE
    /\ authOut = NoAuthOut
    /\ bearer403 = FALSE
    /\ valIn \in EdgeBodies
    /\ valOut = NoValOut
    /\ InitStore

SpecValid == ValidInit /\ [][ValidNext]_vars

---------------------------------------------------------------------------
(* SpecStore: authorized create, update and delete requests with           *)
(* titles at the edges of the bounds, in a run that inserts up to MaxIds   *)
(* rows, so that rows are created after others were deleted.               *)

\* SpecStore: at most MaxIds rows are ever inserted
MaxIds == 2

\* titles sent: none, null, "", " ", "x", " x ", and around TITLE_MAX
\* characters with and without outer whitespace
StoreTitles ==
    {Unset, None, Str(EmptyTxt), Str(Txt(1, "", 0, 0)), Str(Txt(0, "x", 1, 0)),
     Str(Txt(1, "x", 1, 1)), Str(Txt(0, "x", TITLE_MAX, 0)), Str(Txt(0, "x", TITLE_MAX + 1, 0)),
     Str(Txt(1, "x", TITLE_MAX - 1, 0)), Str(Txt(1, "x", TITLE_MAX - 1, 1))}

StoreBodiesOf(op) == IF op \in {"create", "update"} THEN {Body(t, Unset) : t \in StoreTitles}
                     ELSE {NoBody}

StoreInit ==
    /\ authIn = Token("empty", FALSE, "configured", NoPayload)
    /\ envIn = NoEnv /\ envOut = NoEnvOut
    /\ exitFirst = FALSE
    /\ authOut = NoAuthOut
    /\ bearer403 = FALSE
    /\ valIn = NoBody
    /\ valOut = NoValOut
    /\ InitStore

StoreNext ==
    \/ Tick
    \/ \E r \in Slots, op \in {"create", "update", "delete"}, u \in Users :
         \E tid \in IF op = "create" THEN {0} ELSE 1..MaxIds, body \in StoreBodiesOf(op) :
              ReceiveWithin(MaxIds, r, op, Header(SubToken(u, "configured", "future")), u,
                            tid, "none", body, 0)
    \/ \E r \in Slots, commit_raises \in BOOLEAN, rollback_raises \in BOOLEAN :
         CloseSession(r, commit_raises, rollback_raises)
    \/ \E r \in Slots : Deliver(r)
    \/ \E r \in Slots : Lookup(r)
    \/ \E r \in Slots : CommitCreate(r)
    \/ \E r \in Slots : CommitUpdate(r)
    \/ \E r \in Slots : CommitDelete(r)
    \/ \E r \in Slots : Refresh(r)

SpecStore == StoreInit /\ [][StoreNext]_vars

---------------------------------------------------------------------------
(* SpecRace: two requests in flight at once on the one stored task of A:   *)
(* toggles, updates and deletes interleaved at their storage calls.        *)

RaceBodiesOf(op) == IF op = "update" THEN {Body(Str(Txt(0, "y", 1, 0)), Unset)} ELSE {NoBody}

RaceInit ==
    /\ authIn = Token("empty", FALSE, "configured", NoPayload)
    /\ envIn = NoEnv /\ envOut = NoEnvOut
    /\ exitFirst = FALSE
    /\ authOut = NoAuthOut
    /\ bearer403 = FALSE
    /\ valIn = NoBody
    /\ valOut = NoValOut
    /\ db \in {s \in Stores : DOMAIN s = {1} /\ s[1].user_id = "A" /\ s[1].created_at = 0}
    /\ nextId = 2
    /\ now = 0
    /\ reqs = [r \in {"r1", "r2"} |-> Idle]
    /\ hist = [i \in DOMAIN db |-> db[i].user_id]
    /\ log = [i \in DOMAIN db |-> Logged(db[i])]

RaceNext ==
    \/ Tick
    \/ \E r \in Slots, op \in {"toggle", "update", "delete"} : \E body \in RaceBodiesOf(op) :
         Receive(r, op, Header(SubToken("A", "configured", "future")), "A", 1, "none", body, 0)
    \/ \E r \in Slots, commit_raises \in BOOLEAN, rollback_raises \in BOOLEAN :
         CloseSession(r, commit_raises, rollback_raises)
    \/ \E r \in Slots : Deliver(r)
    \/ \E r \in Slots : Lookup(r)
    \/ \E r \in Slots : CommitUpdate(r)
    \/ \E r \in Slots : CommitDelete(r)
    \/ \E r \in Slots : Refresh(r)

SpecRace == RaceInit /\ [][RaceNext]_vars

---------------------------------------------------------------------------
(* SpecIsolation: one list, get, update, delete or toggle request of a     *)
(* user, made with the user's own token and path, against each store of    *)
(* at most MaxListed rows of either owner; the run ends with the response.  *)

IsolationBodiesOf(op) ==
    IF op = "update"
    THEN {Body(t, d) : t \in {Unset, None, Str(Txt(1, "y", 1, 0)), Str(EmptyTxt)},
                       d \in {Unset, Str(Txt(0, "d", 1, 1))}}
    ELSE {NoBody}

IsolationNext ==
    \/ \E r \in Slots, op \in Ops \ {"create"}, u \in Users :
         \E tid \in IF op = "list" THEN {0} ELSE 1..MaxListed, filter \in FiltersOf(op),
            body \in IsolationBodiesOf(op) :
              Receive(r, op, Header(SubToken(u, "configured", "future")), u, tid, filter, body, 0)
    \/ \E r \in Slots, commit_raises \in BOOLEAN, rollback_raises \in BOOLEAN :
         CloseSession(r, commit_raises, rollback_raises)
    \/ \E r \in Slots : ListTasks(r)
    \/ \E r \in Slots : Lookup(r)
    \/ \E r \in Slots : CommitUpdate(r)
    \/ \E r \in Slots : CommitDelete(r)
    \/ \E r \in Slots : Refresh(r)

SpecIsolation == ListInit /\ [][IsolationNext]_vars

---------------------------------------------------------------------------
(* SpecOrder: one request of any route, with any header, path owner, id    *)
(* and body (valid, invalid, or not JSON at all), against each store of    *)
(* at most MaxListed rows; the run ends with the response.                 *)

\* bodies sent: title " x ", "", null, and bytes that are not JSON
OrderBodies ==
    {Body(t, Unset) : t \in {Str(Txt(1, "x", 1, 1)), Str(EmptyTxt), None}} \cup {MalformedBody}
OrderBodiesOf(op) == IF op \in {"create", "update"} THEN OrderBodies ELSE {NoBody}
OrderTaskIdsOf(op) == IF op \in {"list", "create"} THEN {0} ELSE 1..MaxListed

OrderNext ==
    \/ \E r \in Slots, op \in Ops, hdr \in Headers, path \in Users :
         \E tid \in OrderTaskIdsOf(op), body \in OrderBodiesOf(op) :
              ReceiveWithin(MaxListed + 1, r, op, hdr, path, tid, "none", body, 0)
    \/ \E r \in Slots, commit_raises \in BOOLEAN, rollback_raises \in BOOLEAN :
         CloseSession(r, commit_raises, rollback_raises)
    \/ \E r \in Slots : ListTasks(r)
    \/ \E r \in Slots : Lookup(r)
    \/ \E r \in Slots : CommitCreate(r)
    \/ \E r \in Slots : CommitUpdate(r)
    \/ \E r \in Slots : CommitDelete(r)
    \/ \E r \in Slots : Refresh(r)

SpecOrder == ListInit /\ [][OrderNext]_vars

---------------------------------------------------------------------------
(* SpecSettings: Settings constructed from every environment of Envs.      *)

\* settings = get_settings() at import of app.config
SettingsRun ==
    /\ ~envOut.done
    /\ envOut' = [done |-> TRUE, settings |-> Settings(envIn)]
    /\ UNCHANGED <<authIn, authOut, bearer403, db, nextId, now, reqs, hist, valIn, valOut, log,
                   exitFirst, envIn>>

SettingsInit ==
    /\ envIn \in Envs /\ envOut = NoEnvOut
    /\ authIn = Token("empty", FALSE, "configured", NoPayload)
    /\ exitFirst = FALSE
    /\ authOut = NoAuthOut
    /\ bearer403 = FALSE
    /\ valIn = NoBody
    /\ valOut = NoValOut
    /\ InitStore

SettingsNext == SettingsRun

SpecSettings == SettingsInit /\ [][SettingsNext]_vars

---------------------------------------------------------------------------
(* SpecFault: requests, GET /health/db among them, against a database that *)
(* may fail any storage call, with either order of the exit code of        *)
(* get_session and the sending of the response.                            *)

\* app/routes/health.py: DatabaseHealthResponse, sent with status 200
DatabaseHealthResponse(status, database, error) ==
    [status |-> 200, www |-> "", detail |-> "", tasks |-> <<>>, errors |-> {},
     health |-> status, database |-> database, error |-> error]

\* GET /health/db arrives: no token is required, Depends(get_session) opens
\* the session, the route runs to its query
ReceiveHealth(r) ==
    /\ NoneDone
    /\ reqs[r].pc = "idle"
    /\ reqs' = [reqs EXCEPT ![r] = [Idle EXCEPT !.pc = "query", !.op = "health",
                                                !.sess = "open"]]
    /\ UNCHANGED <<authIn, authOut, bearer403, db, nextId, now, hist, valIn, valOut, log,
                   exitFirst, envIn, envOut>>

\* database_health_check: SELECT 1 succeeds, or raises and the except
\* clause answers with str(e)
database_health_check(r, fails) ==
    LET e == Raise("OperationalError", "connection lost") IN
    /\ NoneDone
    /\ reqs[r].pc = "query" /\ reqs[r].op = "health"
    /\ reqs' = [reqs EXCEPT ![r] =
                  [@ EXCEPT !.pc = "done", !.queried = TRUE,
                            !.seen = IF fails THEN "error" ELSE "ok",
                            !.resp = IF fails
                                     THEN DatabaseHealthResponse("unhealthy", "disconnected", e.msg)
                                     ELSE DatabaseHealthResponse("healthy", "connected", "")]]
    /\ UNCHANGED <<authIn, authOut, bearer403, db, nextId, now, hist, valIn, valOut, log,
                   exitFirst, envIn, envOut>>

\* the storage call a task route is suspended in raises: the query of the
\* lookup, the commit of the route (nothing is committed) or the refresh
\* after it
StorageFails(r) ==
    /\ NoneDone
    /\ reqs[r].pc \in {"lookup", "commit", "refresh"}
    /\ reqs' = [reqs EXCEPT ![r] =
                  Fail([@ EXCEPT !.queried = TRUE], Raise("OperationalError", "connection lost"))]
    /\ UNCHANGED <<authIn, authOut, bearer403, db, nextId, now, hist, valIn, valOut, log,
                   exitFirst, envIn, envOut>>

\* headers sent: none, a token of A; bodies sent: title " x ", null, ""
FaultHeaders == {NoHeader, Header(SubToken("A", "configured", "future"))}
FaultBodiesOf(op) ==
    IF op \in {"create", "update"}
    THEN {Body(t, Unset) : t \in {Str(Txt(1, "x", 1, 1)), None, Str(EmptyTxt)}}
    ELSE {NoBody}

FaultInit ==
    /\ authIn = Token("empty", FALSE, "configured", NoPayload)
    /\ envIn = NoEnv /\ envOut = NoEnvOut
    /\ exitFirst \in BOOLEAN
    /\ authOut = NoAuthOut
    /\ bearer403 = FALSE
    /\ valIn = NoBody
    /\ valOut = NoValOut
    /\ InitStore

FaultNext ==
    \/ Tick
    \/ \E r \in Slots, op \in Ops, hdr \in FaultHeaders, path \in Users :
         \E tid \in TaskIdsOf(op), filter \in FiltersOf(op), body \in FaultBodiesOf(op) :
              Receive(r, op, hdr, path, tid, filter, body, 0)
    \/ \E r \in Slots : ReceiveHealth(r)
    \/ \E r \in Slots, fails \in BOOLEAN : database_health_check(r, fails)
    \/ \E r \in Slots : StorageFails(r)
    \/ \E r \in Slots, commit_raises \in BOOLEAN, rollback_raises \in BOOLEAN :
         CloseSession(r, commit_raises, rollback_raises)
    \/ \E r \in Slots : Deliver(r)
    \/ \E r \in Slots : ListTasks(r)
    \/ \E r \in Slots : Lookup(r)
    \/ \E r \in Slots : CommitCreate(r)
    \/ \E r \in Slots : CommitUpdate(r)
    \/ \E r \in Slots : CommitDelete(r)
    \/ \E r \in Slots : Refresh(r)

SpecFault == FaultInit /\ [][FaultNext]_vars

---------------------------------------------------------------------------
(* Properties of the authentication functions (checked under SpecAuth).    *)

\* the two failure kinds of verify_jwt_token
IsTokenExpired(r) ==
    ~r.ok /\ r.exc = "HTTPException" /\ r.status = 401 /\ r.msg = "Token has expired"
InvalidDetails == {"Invalid token signature", "Token decode error", "Invalid token",
                   "No user ID found in token", "Token missing expiration claim"}
IsTokenInvalid(r) ==
    ~r.ok /\ r.exc = "HTTPException" /\ r.status = 401 /\ r.msg \in InvalidDetails

\* the token carries none of the four subject claims with a non-null value
NoSubject(payload) ==
    \A c \in {"sub", "user_id", "userId", "id"} : payload[c].t \in {"absent", "null"}

\* C1: verify_user_access returns the identity unchanged when its user_id
\* equals the path owner id exactly (case-sensitive), fails with 403 in every
\* other case, an empty path id included, and leaves storage untouched.
C1_GuardExact ==
    (authOut.done /\ authOut.verified.ok) =>
        LET i == authOut.verified.val
            p == authOut.path
        IN  /\ i.user_id = p => authOut.guarded.ok /\ authOut.guarded.val = i
            /\ i.user_id # p => /\ ~authOut.guarded.ok
                                /\ authOut.guarded.exc = "HTTPException"
                                /\ authOut.guarded.status = 403
            /\ db = [k \in {} |-> NoTask] /\ nextId = 1

\* C1 witness: subject "A" against path "a" is refused, and "A" against "A" would pass
C1_Witness ==
    /\ authOut.done /\ authOut.verified.ok
    /\ authOut.verified.val.user_id = "A" /\ authOut.path = "a"
    /\ authOut.guarded.status = 403

\* the decimal form of the numeric claim values of ClaimValues
StringForm(v) ==
    IF v = IntV(0) THEN "0" ELSE IF v = IntV(12345) THEN "12345" ELSE v.s

\* C5: extract_user_id returns the string form of the first non-null value
\* among sub, user_id, userId, id in that order, and fails as an invalid
\* token when all four are absent or null.
C5_SubjectPriority ==
    authOut.done =>
        LET pl == authIn.payload
            x == authOut.extracted
        IN  /\ IsNotNone(pl.sub) => x.ok /\ x.val = StringForm(pl.sub)
            /\ ~IsNotNone(pl.sub) /\ IsNotNone(pl.user_id) =>
                  x.ok /\ x.val = StringForm(pl.user_id)
            /\ ~IsNotNone(pl.sub) /\ ~IsNotNone(pl.user_id) /\ IsNotNone(pl.userId) =>
                  x.ok /\ x.val = StringForm(pl.userId)
            /\ ~IsNotNone(pl.sub) /\ ~IsNotNone(pl.user_id) /\ ~IsNotNone(pl.userId)
                  /\ IsNotNone(pl.id) => x.ok /\ x.val = StringForm(pl.id)
            /\ NoSubject(pl) => ~x.ok /\ x.exc = "InvalidTokenError"

\* C5 witness: sub is null, user_id is the number 12345, userId and id are strings
C5_Witness ==
    /\ authOut.done
    /\ authIn.payload.sub = Null /\ authIn.payload.user_id = IntV(12345)
    /\ authIn.payload.userId = StrV("A") /\ authIn.payload.id = StrV("B")
    /\ authOut.extracted.ok /\ authOut.extracted.val = "12345"

\* the tokens C6 is about
C6_Rejected(token) ==
    \/ token.form # "jwt"
    \/ token.secret # "configured"
    \/ token.payload.exp = "absent"
    \/ NoSubject(token.payload)

\* C6 as stated: every token signed with another secret, malformed or empty,
\* without the expiry claim or without a subject claim fails as TokenInvalid
\* (401) and never yields an identity.
C6_Original ==
    (authOut.done /\ C6_Rejected(authIn)) => IsTokenInvalid(authOut.verified)

\* C6 amended: such a token never yields an identity and fails with 401; it
\* fails as TokenInvalid, except that a well-formed, correctly signed token
\* without a subject claim whose expiry is in the past fails as TokenExpired.
C6_RejectedAsInvalid ==
    (authOut.done /\ C6_Rejected(authIn)) =>
        /\ ~authOut.verified.ok
        /\ authOut.verified.status = 401 /\ authOut.verified.www = "Bearer"
        /\ IF authIn.form = "jwt" /\ authIn.secret = "configured"
              /\ authIn.payload.exp = "past" /\ authIn.payload.iat # "nonint"
           THEN IsTokenExpired(authOut.verified)
           ELSE IsTokenInvalid(authOut.verified)

\* C6 witness: a correctly signed, expired token without any subject claim
C6_Witness ==
    /\ authOut.done
    /\ authIn.form = "jwt" /\ authIn.secret = "configured"
    /\ NoSubject(authIn.payload) /\ authIn.payload.exp = "past"
    /\ IsTokenExpired(authOut.verified)

\* C7 as stated: every token whose expiry claim is in the past fails as
\* TokenExpired, whatever its signature.
C7_Original ==
    (authOut.done /\ authIn.payload.exp = "past") => IsTokenExpired(authOut.verified)

\* C7 amended: a well-formed token signed with the configured secret whose
\* expiry claim is in the past (and whose iat, if present, is valid) fails as
\* TokenExpired, with or without the "Bearer " prefix and with or without a
\* subject; an expired token signed with another secret fails as TokenInvalid.
C7_ExpiredWhenSigned ==
    (authOut.done /\ authIn.form = "jwt" /\ authIn.payload.exp = "past") =>
        /\ (authIn.secret = "configured" /\ authIn.payload.iat # "nonint")
              => IsTokenExpired(authOut.verified)
        /\ authIn.secret # "configured"
              => /\ IsTokenInvalid(authOut.verified)
                 /\ authOut.verified.msg = "Invalid token signature"

\* C7 witness: an expired token with a valid signature
C7_Witness ==
    /\ authOut.done
    /\ authIn.form = "jwt" /\ authIn.secret = "configured"
    /\ authIn.payload.exp = "past" /\ authIn.payload.sub = StrV("A")
    /\ IsTokenExpired(authOut.verified)

\* C8: verify_jwt_token returns an identity or fails with an HTTPException of
\* status 401 carrying WWW-Authenticate: Bearer, whose detail is either the
\* expiry message or another reason; no other exception leaves it.
C8_Only401 ==
    authOut.done =>
        \/ authOut.verified.ok
        \/ /\ authOut.verified.exc = "HTTPException"
           /\ authOut.verified.status = 401
           /\ authOut.verified.www = "Bearer"

\* C8 witness: the expiry value is out of the range of datetime, so
\* utcfromtimestamp raises inside parse_jwt_payload
C8_Witness ==
    /\ authOut.done
    /\ authIn.form = "jwt" /\ authIn.secret = "configured"
    /\ authIn.payload.exp = "overflow" /\ ~NoSubject(authIn.payload)
    /\ authOut.verified.status = 401
    /\ authOut.verified.msg = "Token verification failed"

---------------------------------------------------------------------------
(* Properties of the requests (checked under Spec).  A request whose pc is *)
(* "done" has just been answered: nothing else has run since its last step.*)

\* the request carries a token that verifies and whose subject is the path owner
Authorized(req) ==
    /\ req.hdr.present
    /\ verify_jwt_token(req.hdr.token).ok
    /\ verify_jwt_token(req.hdr.token).val.user_id = req.path

\* the subject of the request's token ("" when the token does not verify)
SubjectOf(req) ==
    IF req.hdr.present /\ verify_jwt_token(req.hdr.token).ok
    THEN verify_jwt_token(req.hdr.token).val.user_id ELSE ""

\* C2: on each of the six routes the token is verified and the owner matched
\* before the first storage access; a request answered 401 or 403 has sent
\* no statement to storage and changed nothing in the store.
C2_AuthBeforeStorage ==
    \A r \in Slots :
        /\ (reqs[r].queried \/ reqs[r].wrote \/ reqs[r].sess # "none") => Authorized(reqs[r])
        /\ reqs[r].resp.status \in {401, 403} =>
              ~reqs[r].queried /\ ~reqs[r].wrote /\ reqs[r].sess = "none"

\* C2 witness: an update with a valid token for another owner is answered 403
\* while the store holds a task, without any storage access
C2_Witness ==
    \E r \in Slots :
        /\ reqs[r].pc = "done" /\ reqs[r].op = "update"
        /\ reqs[r].hdr.present /\ verify_jwt_token(reqs[r].hdr.token).ok
        /\ reqs[r].resp.status = 403 /\ ~reqs[r].queried
        /\ DOMAIN db # {}

\* C3: every stored task has one owner_id, the subject of the token of the
\* request that created it; every task a request returned or changed is owned
\* by the subject of that request's token.
C3_OwnerIsCreator ==
    /\ \A i \in DOMAIN db : db[i].user_id \in Users /\ db[i].user_id = hist[i]
    /\ \A r \in Slots :
          /\ \A k \in 1..Len(reqs[r].resp.tasks) :
                reqs[r].resp.tasks[k].user_id = SubjectOf(reqs[r])
          /\ reqs[r].wrote => reqs[r].obj.user_id = SubjectOf(reqs[r])

\* C3 witness: B toggled the task B created
C3_Witness ==
    \E r \in Slots :
        /\ reqs[r].pc = "done" /\ reqs[r].op = "toggle" /\ reqs[r].resp.status = 200
        /\ reqs[r].wrote /\ reqs[r].resp.tasks[1].user_id = "B" /\ hist[1] = "B"

\* the response to a lookup that found nothing
NotFoundResponse(task_id) ==
    Response(404, "", "Task with id " \o ToString(task_id) \o " not found", <<>>)

\* C4: get, update, delete and toggle of an id that exists under another
\* owner are answered 404, with the very response given for an id that does
\* not exist, and change nothing.  (Every authorized get, delete and toggle,
\* and every authorized update whose body is valid, reaches the lookup.)
C4_ForeignIs404 ==
    \A r \in Slots :
        /\ (reqs[r].pc = "done" /\ reqs[r].seen \in {"foreign", "missing"}) =>
              /\ reqs[r].resp = NotFoundResponse(reqs[r].tid)
              /\ ~reqs[r].wrote
              /\ reqs[r].seen = "foreign" =>
                    reqs[r].tid \in DOMAIN db /\ db[reqs[r].tid].user_id # reqs[r].path
        /\ (reqs[r].pc = "done" /\ Authorized(reqs[r])
              /\ reqs[r].op \in {"get", "update", "delete", "toggle"}
              /\ (reqs[r].op = "update" => TaskUpdate(reqs[r].body).errors = {})) =>
              reqs[r].seen \in {"foreign", "missing", "own"}

\* C4 witness: B, with B's token and B's path, deletes the id of A's task
C4_Witness ==
    \E r \in Slots :
        /\ reqs[r].pc = "done" /\ reqs[r].op = "delete" /\ reqs[r].seen = "foreign"
        /\ reqs[r].path = "B" /\ SubjectOf(reqs[r]) = "B"
        /\ reqs[r].resp.status = 404 /\ db[reqs[r].tid].user_id = "A"

\* C9: on every route a request without Authorization header, or with a token
\* that does not verify, is answered 401 with WWW-Authenticate: Bearer.
C9_Original ==
    \A r \in Slots :
        (reqs[r].pc = "done"
           /\ (~reqs[r].hdr.present \/ ~verify_jwt_token(reqs[r].hdr.token).ok)) =>
            reqs[r].resp.status = 401 /\ reqs[r].resp.www = "Bearer"

\* C10: a create answered 201 returns and stores a task owned by the token's
\* subject, not completed, with the trimmed title, a null description when
\* none was sent and created_at = updated_at; a get returns the stored row.
C10_Original ==
    \A r \in Slots :
        /\ (reqs[r].pc = "done" /\ reqs[r].op = "create" /\ reqs[r].resp.status = 201) =>
              LET t == reqs[r].resp.tasks[1] IN
              /\ t.id \in DOMAIN db /\ db[t.id] = t
              /\ t.user_id = SubjectOf(reqs[r])
              /\ t.completed = FALSE
              /\ t.title = Str(strip(reqs[r].body.title.s))
              /\ reqs[r].body.description = Unset => t.description = None
              /\ t.created_at = t.updated_at
        /\ (reqs[r].pc = "done" /\ reqs[r].op = "get" /\ reqs[r].resp.status = 200) =>
              reqs[r].resp.tasks = <<db[reqs[r].tid]>>

\* the fields a toggle must leave alone
ToggleFrame == {"id", "user_id", "title", "description", "created_at"}

\* C11: of two successive committed toggles of a task, each flips completed
\* once and leaves id, owner, title, description and created_at unchanged, the
\* second restores the original completed, and updated_at strictly increases
\* at both.
C11_Original ==
    \A i \in DOMAIN log :
        LET rows == log[i].rows IN
        /\ \A k \in 1..Len(rows) - 1 :
              /\ rows[k + 1].completed = ~rows[k].completed
              /\ \A c \in ToggleFrame : rows[k + 1][c] = rows[k][c]
              /\ rows[k + 1].updated_at > rows[k].updated_at
        /\ Len(rows) = 3 => rows[3].completed = rows[1].completed

\* a string field of a body with its outer whitespace removed; null when
\* nothing is left
Trimmed(f) == IF f.s.len = 0 THEN None ELSE Str(Txt(0, f.s.core, f.s.len, 0))

\* C12: an update answered 200 stores and returns the row it found with
\* exactly the supplied fields replaced by their validated values, the other
\* fields, id, owner, completed and created_at unchanged, and updated_at set
\* to the clock reading of the request.
C12_UpdateFrame ==
    \A r \in Slots :
        (reqs[r].pc = "done" /\ reqs[r].op = "update" /\ reqs[r].resp.status = 200) =>
            LET t == reqs[r].resp.tasks[1]
                o == reqs[r].orig
                b == reqs[r].body
            IN  /\ db[reqs[r].tid] = t
                /\ t.title = IF b.title.t = "unset" THEN o.title ELSE Trimmed(b.title)
                /\ t.title # None
                /\ t.description = IF b.description.t = "unset" THEN o.description
                                   ELSE IF b.description.t = "null" THEN None
                                   ELSE Trimmed(b.description)
                /\ \A c \in {"id", "user_id", "completed", "created_at"} : t[c] = o[c]
                /\ t.updated_at = reqs[r].clock

\* C12 witness: only the title is supplied for a task that has a description,
\* and the clock has advanced since the task was written
C12_Witness ==
    \E r \in Slots :
        /\ reqs[r].pc = "done" /\ reqs[r].op = "update" /\ reqs[r].resp.status = 200
        /\ reqs[r].body.title.t = "str" /\ reqs[r].body.description.t = "unset"
        /\ reqs[r].orig.description # None
        /\ reqs[r].resp.tasks[1].description = reqs[r].orig.description
        /\ reqs[r].resp.tasks[1].updated_at > reqs[r].orig.updated_at

\* C13: every authorized update whose body holds title and description, each
\* absent, null or a string, is answered 200 with the updated task, 404 or 422.
C13_Original ==
    \A r \in Slots :
        (reqs[r].pc = "done" /\ reqs[r].op = "update" /\ Authorized(reqs[r])) =>
            /\ reqs[r].resp.status \in {200, 404, 422}
            /\ reqs[r].resp.status = 200 => reqs[r].resp.tasks = <<db[reqs[r].tid]>>

\* the title of the body is a string with nothing but whitespace in it
BlankTitle(body) == body.title.t = "str" /\ body.title.s.len = 0

\* C14: an authorized create or update whose title is empty or whitespace
\* only is answered 422 with an error entry naming the title field, and sends
\* no statement to storage.
C14_BlankTitleRejected ==
    \A r \in Slots :
        (reqs[r].op \in {"create", "update"} /\ Authorized(reqs[r])
           /\ BlankTitle(reqs[r].body) /\ reqs[r].pc # "idle") =>
            /\ reqs[r].pc = "done"
            /\ reqs[r].resp.status = 422
            /\ "body.title" \in reqs[r].resp.errors
            /\ ~reqs[r].queried /\ ~reqs[r].wrote

\* C14 witness: an update of an existing own task with a whitespace-only title
C14_Witness ==
    \E r \in Slots :
        /\ reqs[r].pc = "done" /\ reqs[r].op = "update" /\ Authorized(reqs[r])
        /\ reqs[r].body.title = Str(Txt(2, "", 0, 0))
        /\ reqs[r].tid \in DOMAIN db /\ db[reqs[r].tid].user_id = reqs[r].path
        /\ reqs[r].resp.status = 422 /\ reqs[r].resp.errors = {"body.title"}

\* the description of the body is a string with nothing but whitespace in it
BlankDescription(body) == body.description.t = "str" /\ body.description.s.len = 0

\* the title of the body is acceptable to the route
TitleAccepted(op, body) ==
    \/ body.title.t = "str" /\ body.title.s.len > 0
    \/ body.title.t = "unset" /\ op = "update"

\* C15: an authorized create or update whose description is empty or
\* whitespace only is not rejected for it; with an acceptable title (and, for
\* an update, an existing own task) it succeeds, and the stored and returned
\* description is null.
C15_BlankDescriptionIsNull ==
    \A r \in Slots :
        (reqs[r].pc = "done" /\ reqs[r].op \in {"create", "update"}
           /\ Authorized(reqs[r]) /\ BlankDescription(reqs[r].body)) =>
            /\ "body.description" \notin reqs[r].resp.errors
            /\ (TitleAccepted(reqs[r].op, reqs[r].body)
                  /\ (reqs[r].op = "update" => reqs[r].seen = "own")) =>
                  /\ reqs[r].resp.status = IF reqs[r].op = "create" THEN 201 ELSE 200
                  /\ reqs[r].resp.tasks[1].description = None
                  /\ db[reqs[r].resp.tasks[1].id].description = None

\* C15 witness: an update with description " " of a task that had a description
C15_Witness ==
    \E r \in Slots :
        /\ reqs[r].pc = "done" /\ reqs[r].op = "update" /\ reqs[r].resp.status = 200
        /\ BlankDescription(reqs[r].body)
        /\ reqs[r].orig.description # None
        /\ db[reqs[r].tid].description = None

\* the request is the delete that removed the row of its id
IsTheDelete(req) == req.op = "delete" /\ req.resp.status = 204

\* C17: once a delete of id t was answered 204, t is not in the store, every
\* authorized get, update (with a valid body), toggle or delete of t that is
\* answered afterwards, by either user, is answered 404, and no response
\* carries t.
C17_DeletedIsGone ==
    \A t \in DOMAIN log :
        log[t].deleted =>
            /\ t \notin DOMAIN db
            /\ \A r \in Slots :
                  /\ (reqs[r].pc = "done" /\ reqs[r].tid = t /\ Authorized(reqs[r])
                        /\ reqs[r].op \in {"get", "update", "toggle", "delete"}
                        /\ (reqs[r].op = "update" => TaskUpdate(reqs[r].body).errors = {})
                        /\ ~IsTheDelete(reqs[r])) =>
                        reqs[r].resp = NotFoundResponse(t)
                  /\ reqs[r].pc = "done" =>
                        \A k \in 1..Len(reqs[r].resp.tasks) : reqs[r].resp.tasks[k].id # t

\* C17 witness: the other user toggles the id of a task that was deleted
C17_Witness ==
    \E r \in Slots :
        /\ reqs[r].pc = "done" /\ reqs[r].op = "toggle" /\ reqs[r].resp.status = 404
        /\ reqs[r].tid \in DOMAIN log /\ log[reqs[r].tid].deleted
        /\ hist[reqs[r].tid] # reqs[r].path

\* the session calls that roll back
Rollbacks == {"rollback", "rollback raises"}

\* C19: a request that obtained a session and whose handler returned has the
\* session committed; one whose handler, or whose body validation, raised has
\* it rolled back and not committed; a commit that raises is followed by a
\* rollback; and whatever commit and rollback do, the last call closes the
\* session, so no request ends with its session open.
C19_SessionReleased ==
    \A r \in Slots :
        /\ reqs[r].sess = "open" => reqs[r].calls = <<>>
        /\ reqs[r].calls # <<>> =>
              LET calls == reqs[r].calls IN
              /\ reqs[r].sess = "closed"
              /\ calls[Len(calls)] = "close"
              /\ reqs[r].raised <=> reqs[r].resp.status \notin {200, 201, 204}
              /\ reqs[r].raised => calls[1] \in Rollbacks /\ Len(calls) = 2
              /\ ~reqs[r].raised => calls[1] \in {"commit", "commit raises"}
              /\ calls[1] = "commit raises" => calls[2] \in Rollbacks /\ Len(calls) = 3
              /\ calls[1] = "commit" => Len(calls) = 2

\* C19 witness: an update answered 404 whose rollback raises, session closed
C19_Witness ==
    \E r \in Slots :
        /\ reqs[r].pc = "done" /\ reqs[r].op = "update" /\ reqs[r].resp.status = 404
        /\ reqs[r].calls = <<"rollback raises", "close">> /\ reqs[r].sess = "closed"

\* C20: every stored task has updated_at >= created_at, and its created_at
\* is the value it was created with.
C20_Timestamps ==
    \A i \in DOMAIN db :
        /\ db[i].updated_at >= db[i].created_at
        /\ db[i].created_at = log[i].created_at

\* C20 witness: a task toggled after the clock advanced
C20_Witness ==
    \E i \in DOMAIN db :
        /\ log[i].rows # <<>>
        /\ db[i].updated_at > db[i].created_at
        /\ log[i].rows[1].updated_at = db[i].created_at

---------------------------------------------------------------------------
(* Properties of the list query (checked under SpecList).                  *)

\* the stored tasks a list request of owner o with the given status is to return
Listed(o, status) ==
    {db[i] : i \in {j \in DOMAIN db :
                      /\ db[j].user_id = o
                      /\ (status = "pending" => ~db[j].completed)
                      /\ (status = "completed" => db[j].completed)}}

\* C18: an authorized list request of owner o is answered 200 with exactly
\* the stored tasks of o that the status filter admits (all of them for "all"
\* and for no status), each once, by created_at descending; with the empty
\* array when there is none.
C18_ListExact ==
    \A r \in Slots :
        (reqs[r].pc = "done" /\ reqs[r].op = "list" /\ Authorized(reqs[r])) =>
            LET tasks == reqs[r].resp.tasks
                want == Listed(reqs[r].path, reqs[r].filter)
            IN  /\ reqs[r].resp.status = 200
                /\ {tasks[k] : k \in 1..Len(tasks)} = want
                /\ Len(tasks) = Cardinality(want)
                /\ \A k \in 1..Len(tasks) - 1 : tasks[k].created_at >= tasks[k + 1].created_at
                /\ want = {} => tasks = <<>>

\* C18 witness: two completed tasks of the owner, the one with the smaller id
\* created later, listed with status=completed
C18_Witness ==
    \E r \in Slots :
        /\ reqs[r].pc = "done" /\ reqs[r].op = "list" /\ reqs[r].filter = "completed"
        /\ Len(reqs[r].resp.tasks) = 2
        /\ reqs[r].resp.tasks[1].id = 1 /\ reqs[r].resp.tasks[2].id = 2
        /\ reqs[r].resp.tasks[1].created_at > reqs[r].resp.tasks[2].created_at

---------------------------------------------------------------------------
(* Properties of the request models (checked under SpecValid).             *)

\* C16: a title that is a string is accepted exactly when its trimmed length
\* is between 1 and 200, a description that is a string exactly when its
\* trimmed length is at most 1000.
C16_Original ==
    valOut.done =>
        /\ valIn.title.t = "str" =>
              ("title" \notin valOut.model.errors
                 <=> (valIn.title.s.len >= 1 /\ valIn.title.s.len <= 200))
        /\ valIn.description.t = "str" =>
              ("description" \notin valOut.model.errors
                 <=> valIn.description.s.len <= 1000)

---------------------------------------------------------------------------
(* Properties of the stored rows (checked under SpecStore).                *)

\* C21: every step leaves each stored row under the id it carries, an id the
\* sequence handed out; a row that stays stored keeps its id, its owner and
\* its creation time; and a row that enters the store gets the next value of
\* the sequence, an id under which no row was ever stored before, whatever
\* the request carried.
C21_IdsAssignedOnce ==
    [][/\ \A i \in DOMAIN db' : db'[i].id = i /\ 0 < i /\ i < nextId'
       /\ \A i \in DOMAIN db \cap DOMAIN db' :
             /\ db'[i].id = db[i].id
             /\ db'[i].user_id = db[i].user_id
             /\ db'[i].created_at = db[i].created_at
       /\ \A i \in DOMAIN db' \ DOMAIN db : i = nextId /\ i \notin DOMAIN log]_vars

\* C21 witness: a create is answered 201 after a row with a smaller id was
\* deleted
C21_Witness ==
    \E r \in Slots :
        /\ reqs[r].pc = "done" /\ reqs[r].op = "create" /\ reqs[r].resp.status = 201
        /\ \E j \in DOMAIN log : log[j].deleted /\ j \notin DOMAIN db
                                   /\ j < reqs[r].resp.tasks[1].id

\* C22: every stored row has a title that is a string (never null) without
\* outer whitespace, of at least one and at most 200 characters.
C22_StoredTitles ==
    \A i \in DOMAIN db :
        /\ db[i].title.t = "str"
        /\ db[i].title.s = strip(db[i].title.s)
        /\ StrLen(strip(db[i].title.s)) >= 1
        /\ StrLen(strip(db[i].title.s)) <= 200

\* C22 witness: an update with title null has been answered while the row
\* it addressed is stored with a title of 200 characters
C22_Witness ==
    \E r \in Slots :
        /\ reqs[r].pc = "done" /\ reqs[r].op = "update" /\ reqs[r].body.title = None
        /\ reqs[r].seen = "own" /\ reqs[r].tid \in DOMAIN db
        /\ StrLen(db[reqs[r].tid].title.s) = 200

---------------------------------------------------------------------------
(* Properties under failing storage (checked under SpecFault).             *)

\* C23: GET /health/db is always answered 200, with status "healthy" when
\* the query succeeded and with status "unhealthy" and an error text when it
\* failed, also once get_session has committed or rolled back.
C23_Original ==
    \A r \in Slots :
        (reqs[r].pc = "done" /\ reqs[r].op = "health") =>
            /\ reqs[r].resp.status = 200
            /\ \/ reqs[r].resp.health = "healthy" /\ reqs[r].seen = "ok"
               \/ reqs[r].resp.health = "unhealthy" /\ reqs[r].resp.error # ""
                    /\ reqs[r].seen = "error"

\* C24: a request whose last exception to reach the handlers was neither an
\* HTTPException nor a validation error is answered 500 with the fixed
\* detail "Internal server error", no header and no data, and the message
\* of the exception is not in the response.
C24_Masked ==
    \A r \in Slots :
        (reqs[r].pc = "done"
           /\ reqs[r].cause.exc \notin {"", "HTTPException", "RequestValidationError"}) =>
            /\ reqs[r].resp = Response(500, "", "Internal server error", <<>>)
            /\ reqs[r].resp.detail # reqs[r].cause.msg

\* C24 witness: an update whose commit violated the NOT NULL constraint has
\* been answered
C24_Witness ==
    \E r \in Slots :
        /\ reqs[r].pc = "done" /\ reqs[r].op = "update" /\ reqs[r].raised
        /\ reqs[r].cause.exc = "IntegrityError"

\* C27: a request answered 401, 403, 404, 422 or 500 has not changed the
\* store, whichever storage call raised.
C27_Original ==
    \A r \in Slots :
        (reqs[r].pc = "done" /\ reqs[r].resp.status \in {401, 403, 404, 422, 500}) =>
            ~reqs[r].wrote

---------------------------------------------------------------------------
(* Properties of the settings (checked under SpecSettings).                *)

\* C25: constructing Settings fails when DATABASE_URL is unset or does not
\* start with postgresql:// or postgres://, or when BETTER_AUTH_SECRET is
\* unset or shorter than 32 characters; otherwise it succeeds, and a variable
\* left unset among JWT_ALGORITHM, DEBUG and CORS_ORIGINS takes HS256, false
\* and the one origin http://localhost:3000.
C25_SettingsValidated ==
    envOut.done =>
        LET url == envIn.DATABASE_URL
            secret == envIn.BETTER_AUTH_SECRET
            st == envOut.settings
            bad == \/ ~url.set
                   \/ /\ ~(Len(url.v) >= 13 /\ SubSeq(url.v, 1, 13) =
                            <<"p", "o", "s", "t", "g", "r", "e", "s", "q", "l", ":", "/", "/">>)
                      /\ ~(Len(url.v) >= 11 /\ SubSeq(url.v, 1, 11) =
                            <<"p", "o", "s", "t", "g", "r", "e", "s", ":", "/", "/">>)
                   \/ ~secret.set
                   \/ secret.n < 32
        IN  /\ bad <=> ~st.ok
            /\ st.ok =>
                  /\ ~envIn.JWT_ALGORITHM.set => st.JWT_ALGORITHM = <<"H", "S", "2", "5", "6">>
                  /\ ~envIn.DEBUG.set => st.DEBUG = FALSE
                  /\ ~envIn.CORS_ORIGINS.set => st.CORS_ORIGINS = <<"http://localhost:3000">>

\* C25 witness: Settings was constructed from postgres://h and a secret of
\* exactly 32 characters, the optional variables unset
C25_Witness ==
    /\ envOut.done /\ envOut.settings.ok
    /\ envIn = Env(EnvStr(Chars_postgres \o Chars_sep \o <<"h">>), EnvLen(32),
                   EnvUnset, EnvUnset, EnvUnset)

---------------------------------------------------------------------------
(* Properties of requests in flight at once (checked under SpecRace).      *)

\* C26: when exactly two toggles of a task were committed since the task
\* was last written otherwise, and two toggles were answered 200, the stored
\* completed is the one before the first of them (flipped twice).
C26_Original ==
    \A i \in DOMAIN db :
        (log[i].toggled = 2 /\ log[i].answered = 2) =>
            db[i].completed = log[i].rows[1].completed

\* C30: no step puts a row into the store under an id that was stored
\* before, and after every step a task whose delete was committed is not in
\* the store: an update or toggle that looked the row up before the delete
\* and commits after it does not bring the task back.
C30_NoResurrection ==
    [][/\ \A i \in DOMAIN db' \ DOMAIN db : i \notin DOMAIN log
       /\ \A r \in Slots :
             (reqs'[r].pc = "done" /\ reqs'[r].op = "delete" /\ reqs'[r].resp.status = 204) =>
                 reqs'[r].tid \notin DOMAIN db']_vars

\* C30 witness: an update or toggle that had found the row has been
\* answered after the delete of the row was committed, and the row is gone
C30_Witness ==
    \E r \in Slots :
        /\ reqs[r].pc = "done" /\ reqs[r].op \in {"update", "toggle"}
        /\ reqs[r].seen = "own" /\ reqs[r].orig.id = reqs[r].tid
        /\ reqs[r].cause.exc = "StaleDataError"
        /\ log[reqs[r].tid].deleted /\ reqs[r].tid \notin DOMAIN db

---------------------------------------------------------------------------
(* Noninterference between users (checked under SpecIsolation).            *)

\* the response to an answered request of subject s is the one fixed by
\* the request, the clock and the rows of s alone: a list holds exactly the
\* rows of s that match the filter, newest first; an id that s does not own
\* gets the same 404 whether the row is another user's or missing; an id
\* that s owns gets the response computed from that row
IsolatedResponse(r) ==
    LET q == reqs[r]
        s == q.path
        o == q.orig
        b == q.body
        updated == [o EXCEPT
                      !.title = IF b.title.t = "unset" THEN @ ELSE Trimmed(b.title),
                      !.description = IF b.description.t = "unset" THEN @
                                      ELSE IF b.description.t = "null" THEN None
                                      ELSE Trimmed(b.description),
                      !.updated_at = q.clock]
    IN
    IF q.op = "list"
    THEN LET want == {db[i] : i \in {j \in DOMAIN db :
                          /\ db[j].user_id = s
                          /\ q.filter = "pending" => ~db[j].completed
                          /\ q.filter = "completed" => db[j].completed}}
             tasks == q.resp.tasks
         IN  /\ q.resp = Response(200, "", "", tasks)
             /\ {tasks[k] : k \in 1..Len(tasks)} = want
             /\ Len(tasks) = Cardinality(want)
             /\ \A k \in 1..Len(tasks) - 1 : tasks[k].created_at >= tasks[k + 1].created_at
    ELSE IF q.seen = ""
    THEN q.op = "update" /\ q.resp.status = 422 /\ ~q.queried
    ELSE IF q.seen \in {"foreign", "missing"}
    THEN q.resp = NotFoundResponse(q.tid) /\ ~q.wrote
    ELSE IF q.op = "get"
    THEN /\ q.seen = "own" /\ q.tid \in DOMAIN db /\ db[q.tid].user_id = s
         /\ q.resp = Response(200, "", "", <<db[q.tid]>>)
    ELSE /\ q.seen = "own" /\ o.id = q.tid /\ o.user_id = s
         /\ q.resp = IF q.op = "delete" THEN Response(204, "", "", <<>>)
                     ELSE IF q.op = "toggle"
                     THEN Response(200, "", "",
                                   <<[o EXCEPT !.completed = ~@, !.updated_at = q.clock]>>)
                     ELSE IF b.title = None
                     THEN Response(500, "", "Internal server error", <<>>)
                     ELSE Response(200, "", "", <<updated>>)

\* C28: every step leaves each answered request of a subject s, made with
\* the token and the path of s, with the response fixed by the rows of s
\* alone, and changes no row but rows of the subject whose request is in
\* flight.
C28_Noninterference ==
    [][/\ \A r \in Slots :
             ((reqs[r].pc = "done" /\ Authorized(reqs[r])) => IsolatedResponse(r))'
       /\ \A i \in DOMAIN db \cup DOMAIN db' :
             (i \notin DOMAIN db \/ i \notin DOMAIN db' \/ db'[i] # db[i]) =>
                 /\ i \in DOMAIN db
                 /\ \E r \in Slots : /\ reqs[r].pc = "commit" /\ Authorized(reqs[r])
                                      /\ db[i].user_id = reqs[r].path]_vars

\* C28 witness: a toggle of A on an id stored for B has been answered while
\* the row of B is in the store
C28_Witness ==
    \E r \in Slots :
        /\ reqs[r].pc = "done" /\ reqs[r].op = "toggle" /\ reqs[r].path = "A"
        /\ reqs[r].seen = "foreign"
        /\ reqs[r].tid \in DOMAIN db /\ db[reqs[r].tid].user_id = "B"

---------------------------------------------------------------------------
(* The order of the checks of a request (checked under SpecOrder).         *)

\* the checks a request can fail
TokenFails(hdr) == ~hdr.present \/ ~verify_jwt_token(hdr.token).ok
OwnerMismatch(hdr, path) ==
    ~TokenFails(hdr) /\ verify_jwt_token(hdr.token).val.user_id # path
BodyInvalid(op, body) ==
    /\ op \in {"create", "update"}
    /\ \/ body.malformed
       \/ (IF op = "create" THEN TaskCreate(body) ELSE TaskUpdate(body)).errors # {}

\* a 404 is reported by the lookup only, to a request that passed the other
\* checks
NotFoundLast ==
    \A r \in Slots :
        (reqs[r].pc # "done" /\ reqs'[r].pc = "done" /\ reqs'[r].resp.status = 404) =>
            /\ reqs[r].pc = "lookup"
            /\ Authorized(reqs[r])
            /\ ~BodyInvalid(reqs[r].op, reqs[r].body)

====
